---------------------------- MODULE Spec2Model ----------------------------
(***************************************************************************)
(* A model of csvfire's row pipeline: the request fingerprint              *)
(* (internal/runner, internal/request), the retrying HTTP client           *)
(* (internal/request/client.go), the Runner's worker pool with its         *)
(* idempotency index (internal/runner/runner.go), the audit logger         *)
(* (internal/logger/logger.go) and the `run` command that wires them       *)
(* together.                                                               *)
(*                                                                         *)
(* Strings are TLA+ strings; \o is Go's string concatenation.  A SHA-256   *)
(* digest is modelled as an injective function of the bytes written to it  *)
(* (collision resistance), so two fingerprints are equal in the model      *)
(* exactly when the digested byte streams are equal.                       *)
(***************************************************************************)
EXTENDS Integers, Sequences, FiniteSets, TLC

VARIABLES
    h,                \* the fingerprint computations of two rows (hash specification)
    val,              \* the shared Validator and the goroutines calling ValidateRow on it
    cfg,              \* the command's inputs: flags, CSV rows, what the server may answer
    main,             \* runExecute: where the command is, and which execution this is
    tasksChan,        \* runExecute's tasksChan: CSVReader.ReadRows -> Runner.Run
    reader,           \* the CSVReader.ReadRows goroutine
    taskChan,         \* Run's internal taskChan: feeder -> workers
    feeder,           \* Run's feeder goroutine
    workers,          \* the worker goroutines: position and locals of each
    checkpoints,      \* Runner.checkpoints, the idempotency index
    result,           \* the RunResult counters the goroutines update
    ctxDone,          \* the run-wide context has been cancelled
    logger,           \* Logger: the background writer, stopChan and doneChan
    logChan,          \* Logger.logChan
    validateLogChan,  \* Logger.validateLogChan
    files,            \* the data lines of sent.csv, request_errors.csv, validate_errors.csv
    failedRows,       \* Logger.failedRows
    obs               \* history: what happened to each row (read by the properties only)

vars == <<h, val, cfg, main, tasksChan, reader, taskChan, feeder, workers, checkpoints, result,
          ctxDone, logger, logChan, validateLogChan, files, failedRows, obs>>

pipeVars == <<cfg, main, tasksChan, reader, taskChan, feeder, workers, checkpoints, result,
              ctxDone, logger, logChan, validateLogChan, files, failedRows, obs>>

(***************************************************************************)
(* Small helpers                                                           *)
(***************************************************************************)
Range(s) == {s[i] : i \in 1..Len(s)}

\* All orders in which Go's `for k := range m` may visit the key set S.
Orders(S) == {s \in [1..Cardinality(S) -> S] : Range(s) = S}

Swap(s, i, j) == [s EXCEPT ![i] = s[j], ![j] = s[i]]

(***************************************************************************)
(* Fingerprint: runner.go generateRequestHash, template.go                 *)
(* generateRequestHash                                                     *)
(***************************************************************************)
\* The column names of the model, listed in Go's byte-wise string order.
KeyOrder == <<"a", "b", "name">>

KeyRank(k) == CHOOSE i \in 1..Len(KeyOrder) : KeyOrder[i] = k

\* The columns of the rows of the hash specification.
HashColumns == {"a", "b"}

\* keys[i] > keys[j] on Go strings
StrGreater(x, y) == KeyRank(x) > KeyRank(y)

\* The hand-written exchange sort of generateRequestHash: the inner loop over j
\* for a fixed i, then the outer loop over i (0-based in Go, 1-based here).
RECURSIVE SortInner(_, _, _)
SortInner(keys, i, j) ==
    IF j > Len(keys) THEN keys
    ELSE SortInner(IF StrGreater(keys[i], keys[j]) THEN Swap(keys, i, j) ELSE keys,
                   i, j + 1)

RECURSIVE SortOuter(_, _)
SortOuter(keys, i) ==
    IF i > Len(keys) THEN keys
    ELSE SortOuter(SortInner(keys, i, i + 1), i + 1)

\* A sort that leaves the keys in map iteration order.
SortKeysUnsorted(keys) == keys

SortKeys(keys) == SortOuter(keys, 1)

\* for _, key := range keys { fmt.Fprintf(h, "data:%s=%s\n", key, data[key]) }
RECURSIVE DataLines(_, _, _)
DataLines(keys, data, i) ==
    IF i > Len(keys) THEN ""
    ELSE "data:" \o keys[i] \o "=" \o data[keys[i]] \o "\n" \o DataLines(keys, data, i + 1)

\* for key, value := range Headers { fmt.Fprintf(h, "header:%s=%s\n", key, value) }
RECURSIVE HeaderLines(_, _, _)
HeaderLines(names, headers, i) ==
    IF i > Len(names) THEN ""
    ELSE "header:" \o names[i] \o "=" \o headers[names[i]] \o "\n"
         \o HeaderLines(names, headers, i + 1)

ConfigLines(rc) ==
    "method:" \o rc.Method \o "\n" \o "url:" \o rc.URL \o "\n" \o "body:" \o rc.Body \o "\n"

\* fmt.Sprintf("%x", h.Sum(nil)): the digest, injective in the bytes written.
Sha256Hex(bytes) == <<"sha256", bytes>>

\* Runner.generateRequestHash: order is the order in which the data map is ranged.
generateRequestHash(rc, data, order) ==
    Sha256Hex(ConfigLines(rc) \o DataLines(SortKeys(order), data, 1))

\* TemplateRenderer.generateRequestHash: hdrOrder is the order in which the
\* headers map is ranged (it is not sorted).
rendererGenerateRequestHash(rc, data, hdrOrder, order) ==
    Sha256Hex(ConfigLines(rc) \o HeaderLines(hdrOrder, rc.Headers, 1)
              \o DataLines(SortKeys(order), data, 1))

\* Request specs and normalized rows the fingerprint is computed for.
HashMethods == {"GET", "POST"}
HashURLs == {"u", "u\nbody:x"}
HashBodies == {"", "x"}
HashHeaderNames == {"A"}
HashHeaderSets == {<<>>} \cup [HashHeaderNames -> {"1", "2"}]
HashConfigs ==
    [Method : HashMethods, URL : HashURLs, Body : HashBodies, Headers : HashHeaderSets]
HashValues == {"", "x", "\ndata:b="}
HashRows == [HashColumns -> HashValues]

HeaderOrders(rc) == Orders(DOMAIN rc.Headers)

\* No command is running.
PipeOff ==
    /\ cfg = <<>> /\ main = <<>> /\ tasksChan = <<>> /\ reader = <<>> /\ taskChan = <<>>
    /\ feeder = <<>> /\ workers = <<>> /\ checkpoints = {} /\ result = <<>>
    /\ ctxDone = FALSE /\ logger = <<>> /\ logChan = <<>> /\ validateLogChan = <<>>
    /\ files = <<>> /\ failedRows = <<>> /\ obs = <<>>

InitHash ==
    /\ h \in [pc : {"input"}, rc1 : HashConfigs, rc2 : HashConfigs,
              data1 : HashRows, data2 : HashRows,
              order1 : Orders(HashColumns), order2 : Orders(HashColumns),
              fp1 : {<<>>}, fp2 : {<<>>}, rfp1 : {<<>>}, rfp2 : {<<>>}]
    /\ \/ h.rc1 = h.rc2
       \/ h.data1 = h.data2
    /\ val = <<>>
    /\ PipeOff

\* The two rows are fingerprinted by the Runner (the idempotency key) and by the
\* renderer (RequestData.Hash, which processTask overwrites with the Runner's).
HashBoth ==
    /\ h.pc = "input"
    /\ \E ho1 \in HeaderOrders(h.rc1), ho2 \in HeaderOrders(h.rc2) :
         h' = [h EXCEPT !.pc = "hashed",
                        !.fp1 = generateRequestHash(h.rc1, h.data1, h.order1),
                        !.fp2 = generateRequestHash(h.rc2, h.data2, h.order2),
                        !.rfp1 = rendererGenerateRequestHash(h.rc1, h.data1, ho1, h.order1),
                        !.rfp2 = rendererGenerateRequestHash(h.rc2, h.data2, ho2, h.order2)]
    /\ UNCHANGED <<val, pipeVars>>

NextHash == HashBoth

SpecHash == InitHash /\ [][NextHash]_vars

\* C6: generateRequestHash is deterministic: with the same RequestSpec and the same
\* key/value pairs, two computations give the same fingerprint whatever the order in
\* which each ranges over the data map.
C6_HashDeterministic ==
    (h.pc = "hashed" /\ h.rc1 = h.rc2 /\ h.data1 = h.data2) => h.fp1 = h.fp2

\* C6 witness: the same row fingerprinted twice with the data map ranged in two
\* different orders.
C6_Witness ==
    /\ h.pc = "hashed"
    /\ h.rc1 = h.rc2
    /\ h.data1 = h.data2
    /\ h.order1 # h.order2
    /\ h.data1["a"] # h.data1["b"]

\* C7: the Runner's fingerprint depends on every component of the RequestSpec: two
\* specs that differ (in method, url, body or headers) give different fingerprints
\* for the same normalized row.
C7_HashDependsOnSpec ==
    (h.pc = "hashed" /\ h.data1 = h.data2 /\ h.rc1 # h.rc2) => h.fp1 # h.fp2

\* C8: under one RequestSpec, two normalized rows over the same columns that differ
\* in a value have different fingerprints.
C8_HashSeparatesRows ==
    (h.pc = "hashed" /\ h.rc1 = h.rc2 /\ h.data1 # h.data2) => h.fp1 # h.fp2


(***************************************************************************)
(* Client.Execute: internal/request/client.go                              *)
(***************************************************************************)
\* NewClient: maxRetries: 3
maxRetries == 3

\* validateRequestConfig: the status codes used when success.status_in is not set.
DefaultStatusIn == {200, 201, 202, 203, 204, 205, 206, 207, 208, 226}

validateRequestConfigStatusIn(statusIn) ==
    IF statusIn = {} THEN DefaultStatusIn ELSE statusIn

\* RequestConfig.IsSuccessStatus
IsSuccessStatus(rc, statusCode) == statusCode \in rc.StatusIn

\* A Go error: nil, or a message; has is the set of the texts categorizeError
\* looks for that the message contains.
NilErr == [nil |-> TRUE, text |-> "", has |-> {}]
Err(text, has) == [nil |-> FALSE, text |-> text, has |-> has]

\* categorizeError: the first case of the switch whose text the message contains.
categorizeError(err) ==
    IF err.nil THEN ""
    ELSE IF "timeout" \in err.has THEN "timeout"
    ELSE IF "connection refused" \in err.has THEN "connection_refused"
    ELSE IF "no such host" \in err.has THEN "dns_error"
    ELSE IF "context canceled" \in err.has THEN "canceled"
    ELSE IF "context deadline exceeded" \in err.has THEN "timeout"
    ELSE "unknown"

\* shouldRetry
shouldRetry(err, statusCode) ==
    \/ statusCode = 0
    \/ statusCode >= 500 /\ statusCode < 600
    \/ statusCode = 429

\* What one call of executeRequest returns: (statusCode, body, headers, err).  Of
\* the body only keysMatch is kept: whether checkResponseConditions accepts it.
\*   response:   client.Do and io.ReadAll succeeded
\*   body_error: client.Do succeeded, io.ReadAll failed (the status is returned)
\*   transport:  client.Do failed
\*   request:    http.NewRequestWithContext failed
Answer(kind, status, err, keysMatch) ==
    [kind |-> kind, status |-> status, err |-> err, keysMatch |-> keysMatch]

CanceledAnswer ==
    Answer("transport", 0, Err("Post \"u\": context canceled", {"context canceled"}), FALSE)

ReadBodyErr == Err("failed to read response body: unexpected EOF", {})

\* With the context cancelled client.Do fails with the context's error; a request
\* that cannot be constructed fails before that.
executeRequest(answers, done) ==
    IF done THEN {CanceledAnswer} \cup {a \in answers : a.kind = "request"}
    ELSE answers \ {CanceledAnswer}

\* result := &RequestResult{...}; attempt := 0
ExecNew ==
    [pc |-> "attempt", attempt |-> 0, StatusCode |-> 0, Success |-> FALSE, Retries |-> 0,
     ErrorCategory |-> "", ErrorDetail |-> "", lastErr |-> NilErr]

\* After the loop: "If we've exhausted retries and still have an error"; return.
ExecAfterLoop(e) ==
    IF ~e.lastErr.nil /\ e.ErrorCategory = ""
    THEN [e EXCEPT !.pc = "returned", !.ErrorCategory = categorizeError(e.lastErr),
                   !.ErrorDetail = e.lastErr.text]
    ELSE [e EXCEPT !.pc = "returned"]

\* One iteration of Execute's loop up to its break, its backoff sleep, or the end
\* of the loop, with a the result of executeRequest.
ExecAttempt(rc, e, a) ==
    LET e1 == [e EXCEPT !.Retries = e.attempt, !.StatusCode = a.status] IN
    IF ~a.err.nil
    THEN LET e2 == [e1 EXCEPT !.lastErr = a.err,
                              !.ErrorCategory = categorizeError(a.err),
                              !.ErrorDetail = a.err.text] IN
         IF ~shouldRetry(a.err, a.status) THEN ExecAfterLoop(e2)
         ELSE IF e.attempt < maxRetries THEN [e2 EXCEPT !.pc = "sleep"]
         ELSE ExecAfterLoop([e2 EXCEPT !.attempt = e.attempt + 1])
    ELSE LET ok == IsSuccessStatus(rc, a.status) IN
         ExecAfterLoop([e1 EXCEPT !.Success =
                            IF ok /\ rc.ResponseKeys THEN a.keysMatch ELSE ok])

\* A continue that skips one value of the loop counter.
ExecBackoffOverSkipping(e) == [e EXCEPT !.pc = "attempt", !.attempt = e.attempt + 2]

\* case <-time.After(backoffDelay): continue
ExecBackoffOver(e) == [e EXCEPT !.pc = "attempt", !.attempt = e.attempt + 1]

\* A return from the backoff that counts one more attempt than were made.
ExecBackoffCancelledBumped(e) == [e EXCEPT !.pc = "returned", !.Retries = e.Retries + 1]

\* case <-ctx.Done(): return result
ExecBackoffCancelled(e) == [e EXCEPT !.pc = "returned"]

\* The RequestResult that Execute returns.
ExecResult(e) ==
    [StatusCode |-> e.StatusCode, Success |-> e.Success, Retries |-> e.Retries,
     ErrorCategory |-> e.ErrorCategory, ErrorDetail |-> e.ErrorDetail]

(***************************************************************************)
(* Validator.ValidateRow and TemplateRenderer.Render, for the schema and   *)
(* the request spec of the modelled command                                *)
(***************************************************************************)
\* The schema of the run command: one required string column, no uniqueness
\* constraint, no row rule.
Schema == [Columns |-> <<[Name |-> "name", Type |-> "string", Required |-> TRUE]>>,
           TreatEmptyAsNull |-> FALSE, Uniqueness |-> <<>>]

ColumnNames == {Schema.Columns[i].Name : i \in 1..Len(Schema.Columns)}

\* strings.TrimSpace, on the values the modelled inputs contain
TrimSpace(s) ==
    CASE s = " a " -> "a"
      [] s = " " -> ""
      [] OTHER -> s

\* strings.ReplaceAll(s, from, to) for texts s and from of one character
ReplaceAll(s, from, to) == IF s = from THEN to ELSE s

\* for from, to := range rule.Replace { result = strings.ReplaceAll(result, from, to) }
\* with order the order in which this range statement visits the keys of the map
RECURSIVE ApplyReplace(_, _, _, _)
ApplyReplace(value, replace, order, i) ==
    IF i > Len(order) THEN value
    ELSE ApplyReplace(ReplaceAll(value, order[i], replace[order[i]]), replace, order, i + 1)

\* preprocess: trim, then the replace map (the modelled schemas remove nothing);
\* col.ReplaceOrder is the order in which this call ranges over col.Replace.
preprocess(value, col) ==
    LET trimmed == IF "Trim" \in DOMAIN col /\ col.Trim THEN TrimSpace(value) ELSE value
    IN IF "Replace" \in DOMAIN col
       THEN ApplyReplace(trimmed, col.Replace, col.ReplaceOrder, 1)
       ELSE trimmed

\* The texts strconv.Atoi accepts, among the values the modelled inputs contain.
IntTexts == {"7", "42"}

\* validateType: nil ("") or the error
validateType(value, colType) ==
    CASE colType = "string" -> ""
      [] colType = "int" -> IF value \in IntTexts THEN "" ELSE "invalid integer"
      [] OTHER -> "unsupported column type"

\* validateValue's loop over colSchema.Validators from rule i on: the first rule
\* whose regex does not match returns its message.  A regex is given with the set
\* of modelled values it matches.
RECURSIVE customValidators(_, _, _)
customValidators(value, rules, i) ==
    IF i > Len(rules) THEN ""
    ELSE IF rules[i].Regex # "" /\ value \notin rules[i].Matches
         THEN (IF rules[i].Message = "" THEN "value does not match validation rule"
               ELSE rules[i].Message)
         ELSE customValidators(value, rules, i + 1)

\* validateValue: nil ("") or the first error found, in the order type, min_len,
\* max_len, regex, enum, custom validators; each failing check returns at once.
validateValue(value, col) ==
    LET t == validateType(value, col.Type) IN
    IF t # "" THEN t
    ELSE IF "MinLen" \in DOMAIN col /\ Len(value) < col.MinLen
         THEN "value too short"
    ELSE IF "MaxLen" \in DOMAIN col /\ Len(value) > col.MaxLen
         THEN "value too long"
    ELSE IF "Regex" \in DOMAIN col /\ col.Regex.Regex # "" /\ value \notin col.Regex.Matches
         THEN "value does not match required pattern"
    ELSE IF "Enum" \in DOMAIN col /\ col.Enum # {} /\ value \notin col.Enum
         THEN "value must be one of"
    ELSE IF "Validators" \in DOMAIN col THEN customValidators(value, col.Validators, 1)
    ELSE ""

\* result.Data[name] = value
SetData(res, name, value) ==
    [res EXCEPT !.Data = [k \in DOMAIN @ \cup {name} |-> IF k = name THEN value ELSE @[k]]]

\* result.Valid = false; result.Errors = append(result.Errors, ...)
AddError(res, rowNum, column, value, message) ==
    [res EXCEPT !.Valid = FALSE,
                !.Errors = Append(@, [Row |-> rowNum, Column |-> column, Value |-> value,
                                      Message |-> message])]

\* ValidateRow's loop over the schema's columns, from column i on; res is the
\* ValidationResult so far.  A column that fails the required check or
\* validateValue is left with `continue`, before result.Data is assigned.  The
\* modelled schemas have no normalize map and no transform.
RECURSIVE ValidateColumns(_, _, _, _, _)
ValidateColumns(schema, rowNum, data, i, res) ==
    IF i > Len(schema.Columns) THEN res
    ELSE LET col == schema.Columns[i]
             raw == IF col.Name \in DOMAIN data THEN data[col.Name] ELSE ""
             exists == col.Name \in DOMAIN data
                       /\ ~(schema.TreatEmptyAsNull /\ raw = "")
             processedValue == preprocess(raw, col)
             err == validateValue(processedValue, col)
         IN IF col.Required /\ (~exists \/ raw = "")
            THEN ValidateColumns(schema, rowNum, data, i + 1,
                   AddError(res, rowNum, col.Name, raw, "required field is missing or empty"))
            ELSE IF ~exists \/ raw = ""
            THEN ValidateColumns(schema, rowNum, data, i + 1, SetData(res, col.Name, ""))
            ELSE IF err # ""
            THEN ValidateColumns(schema, rowNum, data, i + 1,
                   AddError(res, rowNum, col.Name, raw, err))
            ELSE ValidateColumns(schema, rowNum, data, i + 1,
                   SetData(res, col.Name, processedValue))

\* result := &ValidationResult{Valid: true, Errors: ..., Data: ...}
NewValidationResult == [Valid |-> TRUE, Errors |-> <<>>, Data |-> <<>>]

\* ValidateRow of the run command's validator (its schema has no uniqueness rule
\* and no row rule, so checkUniqueness and validateRowRules do nothing).
ValidateRow(rowNum, data) ==
    ValidateColumns(Schema, rowNum, data, 1, NewValidationResult)

\* The request spec of the run.  The url template slices the first two characters
\* of the name ({{slice .name 0 2}}): text/template fails on a shorter name.
RunMethod == "POST"
RunURL == "https://api/{{slice .name 0 2}}"
RunBody == "{{.name}}"

RequestConfig(statusIn, responseKeys) ==
    [Method |-> RunMethod, URL |-> RunURL, Body |-> RunBody, Headers |-> <<>>,
     StatusIn |-> validateRequestConfigStatusIn(statusIn), ResponseKeys |-> responseKeys]

\* tr.urlTemplate.Execute fails
urlTemplateFails(data) == Len(data["name"]) < 2

\* TemplateRenderer.Render: an error, or the request data (of which the model
\* keeps the method and the hash the renderer computes).
Render(rc, data) ==
    IF urlTemplateFails(data)
    THEN [err |-> Err("failed to render URL: error calling slice", {})]
    ELSE [err |-> NilErr, Method |-> rc.Method,
          Hash |-> rendererGenerateRequestHash(rc, data, <<>>, <<"name">>)]



(***************************************************************************)
(* The run command: runExecute, CSVReader.ReadRows, Runner.Run, its feeder *)
(* and workers, Logger                                                     *)
(***************************************************************************)
\* NewLogger: make(chan LogEntry, 1000), make(chan ValidationLogEntry, 1000)
LogChanCap == 1000

RC == RequestConfig(cfg.statusIn, cfg.responseKeys)

RowNumbers == 1..Len(cfg.rows)

\* The record ReadRows builds for data row r: header name -> field.
RowData(r) == [c \in ColumnNames |-> cfg.rows[r]]

Workers == 1..cfg.concurrency

\* A task queue of three slots per worker.
TaskChanCapThree == cfg.concurrency * 3

\* make(chan RowTask, concurrency*2), in runExecute and in Run
TaskChanCap == cfg.concurrency * 2

NoResult == [StatusCode |-> 0, Success |-> FALSE, Retries |-> 0,
             ErrorCategory |-> "", ErrorDetail |-> ""]

WorkerNew == [pc |-> "off", task |-> 0, e |-> ExecNew, rr |-> NoResult,
              ctr |-> "", tmp |-> 0, next |-> "", reason |-> "", ftmp |-> <<>>]

VRes(w) == ValidateRow(workers[w].task, RowData(workers[w].task))

\* requestHash := r.generateRequestHash(validationResult.Data)
RowHash(r) ==
    LET data == ValidateRow(r, RowData(r)).Data
    IN generateRequestHash(RC, data, CHOOSE o \in Orders(DOMAIN data) : TRUE)

ObsNew ==
    [deq |-> [r \in RowNumbers |-> "no"],
     callbacks |-> [r \in RowNumbers |-> 0],
     http |-> [r \in RowNumbers |-> 0],
     branch |-> [r \in RowNumbers |-> ""],
     counted |-> [r \in RowNumbers |-> ""],
     okDone |-> {}, lateCheck |-> {}, preloaded |-> {}, interrupted |-> FALSE]

\* The state in which runExecute has built the Runner (NewRunner) and the Logger
\* (NewLogger: initLogFiles creates the three files anew, runLogger is started).
InitPipe(c) ==
    /\ cfg = c
    /\ main = [pc |-> "new", run |-> 1, loaded |-> FALSE,
               runResult |-> <<>>, prev |-> <<>>]
    /\ tasksChan = [buf |-> <<>>, closed |-> FALSE]
    /\ reader = [pc |-> "off", rowNumber |-> 1]
    /\ taskChan = [buf |-> <<>>, closed |-> FALSE]
    /\ feeder = [pc |-> "off", task |-> 0]
    /\ workers = [w \in 1..c.concurrency |-> WorkerNew]
    /\ checkpoints = {}
    /\ result = [TotalRows |-> 0, SuccessRows |-> 0, FailedRows |-> 0, SkippedRows |-> 0]
    /\ ctxDone = FALSE
    /\ logger = [pc |-> "run", stop |-> FALSE, schema |-> Schema]
    /\ logChan = <<>>
    /\ validateLogChan = <<>>
    /\ files = [sent |-> <<>>, errors |-> <<>>, validate |-> <<>>]
    /\ failedRows = <<>>
    /\ obs = [deq |-> [r \in 1..Len(c.rows) |-> "no"],
              callbacks |-> [r \in 1..Len(c.rows) |-> 0],
              http |-> [r \in 1..Len(c.rows) |-> 0],
              branch |-> [r \in 1..Len(c.rows) |-> ""],
              counted |-> [r \in 1..Len(c.rows) |-> ""],
              okDone |-> {}, lateCheck |-> {}, preloaded |-> {}, interrupted |-> FALSE]
    /\ h = <<>>
    /\ val = <<>>

\* The goroutines run until the process ends.
Alive == main.pc \in {"run", "returned", "closing"}

\* Runner.LoadCheckpoints, called once before Run with the set cps.
LoadCheckpoints(cps) ==
    /\ main.pc = "new" /\ ~main.loaded
    /\ checkpoints' = checkpoints \cup cps
    /\ main' = [main EXCEPT !.loaded = TRUE]
    /\ obs' = [obs EXCEPT !.preloaded = @ \cup cps]
    /\ UNCHANGED <<h, val, cfg, tasksChan, reader, taskChan, feeder, workers, result, ctxDone,
                   logger, logChan, validateLogChan, files, failedRows>>

\* runExecute: go csvReader.ReadRows(tasksChan); Run: go r.worker(...) for each
\* worker, go func() { feeder }, wg.Wait().
StartRun ==
    /\ main.pc = "new"
    /\ main' = [main EXCEPT !.pc = "run"]
    /\ reader' = [reader EXCEPT !.pc = "read"]
    /\ feeder' = [feeder EXCEPT !.pc = "recv"]
    /\ workers' = [w \in Workers |-> [workers[w] EXCEPT !.pc = "idle"]]
    /\ UNCHANGED <<h, val, cfg, tasksChan, taskChan, checkpoints, result, ctxDone, logger,
                   logChan, validateLogChan, files, failedRows, obs>>

\* The signal handler of runExecute: cancel().
Interrupt ==
    /\ main.pc = "run" /\ ~ctxDone
    /\ ctxDone' = TRUE
    /\ obs' = [obs EXCEPT !.interrupted = TRUE]
    /\ UNCHANGED <<h, val, cfg, main, tasksChan, reader, taskChan, feeder, workers, checkpoints,
                   result, logger, logChan, validateLogChan, files, failedRows>>

\* ReadRows: tasksChan <- task; rowNumber++ (the send has no cancellation case).
ReaderSend ==
    /\ Alive /\ reader.pc = "read"
    /\ reader.rowNumber <= Len(cfg.rows)
    /\ Len(tasksChan.buf) < TaskChanCap
    /\ tasksChan' = [tasksChan EXCEPT !.buf = Append(@, reader.rowNumber)]
    /\ reader' = [reader EXCEPT !.rowNumber = @ + 1]
    /\ UNCHANGED <<h, val, cfg, main, taskChan, feeder, workers, checkpoints, result, ctxDone,
                   logger, logChan, validateLogChan, files, failedRows, obs>>

\* ReadRows: io.EOF: break; return nil; defer close(tasksChan).
ReaderClose ==
    /\ Alive /\ reader.pc = "read"
    /\ reader.rowNumber > Len(cfg.rows)
    /\ tasksChan' = [tasksChan EXCEPT !.closed = TRUE]
    /\ reader' = [reader EXCEPT !.pc = "done"]
    /\ UNCHANGED <<h, val, cfg, main, taskChan, feeder, workers, checkpoints, result, ctxDone,
                   logger, logChan, validateLogChan, files, failedRows, obs>>

\* feeder: for task := range rows
FeederRecv ==
    /\ Alive /\ feeder.pc = "recv"
    /\ IF tasksChan.buf # <<>>
       THEN /\ feeder' = [pc |-> "send", task |-> Head(tasksChan.buf)]
            /\ tasksChan' = [tasksChan EXCEPT !.buf = Tail(@)]
            /\ UNCHANGED taskChan
       ELSE /\ tasksChan.closed
            /\ feeder' = [pc |-> "done", task |-> 0]
            /\ taskChan' = [taskChan EXCEPT !.closed = TRUE]
            /\ UNCHANGED tasksChan
    /\ UNCHANGED <<h, val, cfg, main, reader, workers, checkpoints, result, ctxDone,
                   logger, logChan, validateLogChan, files, failedRows, obs>>

\* feeder: select { case taskChan <- task: ...
FeederSend ==
    /\ Alive /\ feeder.pc = "send"
    /\ Len(taskChan.buf) < TaskChanCap
    /\ taskChan' = [taskChan EXCEPT !.buf = Append(@, feeder.task)]
    /\ feeder' = [feeder EXCEPT !.pc = "count"]
    /\ UNCHANGED <<h, val, cfg, main, tasksChan, reader, workers, checkpoints, result, ctxDone,
                   logger, logChan, validateLogChan, files, failedRows, obs>>

\* feeder: ... result.TotalRows++ (the feeder is the only writer of TotalRows)
FeederCount ==
    /\ Alive /\ feeder.pc = "count"
    /\ result' = [result EXCEPT !.TotalRows = @ + 1]
    /\ feeder' = [pc |-> "recv", task |-> 0]
    /\ UNCHANGED <<h, val, cfg, main, tasksChan, reader, taskChan, workers, checkpoints, ctxDone,
                   logger, logChan, validateLogChan, files, failedRows, obs>>

\* feeder: select { ... case <-ctx.Done(): return }; defer close(taskChan)
FeederCancelled ==
    /\ Alive /\ feeder.pc = "send"
    /\ ctxDone
    /\ feeder' = [pc |-> "done", task |-> 0]
    /\ taskChan' = [taskChan EXCEPT !.closed = TRUE]
    /\ UNCHANGED <<h, val, cfg, main, tasksChan, reader, workers, checkpoints, result, ctxDone,
                   logger, logChan, validateLogChan, files, failedRows, obs>>



(***************************************************************************)
(* Runner.worker and Runner.processTask                                    *)
(***************************************************************************)
\* An isAlreadyProcessed that finds no hash in the index.
isAlreadyProcessedNever(cps, hash) == FALSE

\* isAlreadyProcessed: return r.checkpoints[hash], under the read lock
isAlreadyProcessed(cps, hash) == hash \in cps

\* A markAsProcessed that does not record the hash.
markAsProcessedNothing(cps, hash) == cps

\* markAsProcessed: r.checkpoints[hash] = true, under the write lock
markAsProcessed(cps, hash) == cps \cup {hash}

\* The locals of a worker that is back at `for task := range tasks`.
BackToLoop(wr) == [WorkerNew EXCEPT !.pc = "idle"]

\* result.<ctr>++ is a load and a store: the worker goes on at next afterwards.
IncThen(wr, ctr, next) == [wr EXCEPT !.pc = "incRead", !.ctr = ctr, !.next = next]

ValidationErrorResult ==
    [NoResult EXCEPT !.ErrorCategory = "validation_error",
                     !.ErrorDetail = "Row validation failed"]

TemplateErrorResult(err) ==
    [NoResult EXCEPT !.ErrorCategory = "template_error", !.ErrorDetail = err.text]

\* processTask from ValidateRow on, up to the first access to shared state.
AfterLimit(wr) ==
    IF ValidateRow(wr.task, RowData(wr.task)).Valid
    THEN [wr EXCEPT !.pc = "check"]
    ELSE [IncThen(wr, "FailedRows", "cbValidate") EXCEPT !.rr = ValidationErrorResult]

\* processTask from its start: with a limiter, r.limiter.Wait(ctx) comes first.
EnterProcess(wr) ==
    IF cfg.limiter THEN [wr EXCEPT !.pc = "limit"] ELSE AfterLimit(wr)

\* A processTask that marks the row as processed whatever Execute returned.
AfterExecuteAlwaysMark(wr, e) == [wr EXCEPT !.pc = "mark", !.e = ExecNew, !.rr = ExecResult(e)]

\* Execute has returned: "Mark as processed if successful", else FailedRows++.
AfterExecute(wr, e) ==
    IF e.Success
    THEN [wr EXCEPT !.pc = "mark", !.e = ExecNew, !.rr = ExecResult(e)]
    ELSE [IncThen(wr, "FailedRows", "cbSend") EXCEPT !.e = ExecNew, !.rr = ExecResult(e)]

NoteBranch(o, wr, nw) ==
    IF nw.pc = "incRead" /\ nw.ctr = "FailedRows" /\ nw.rr.ErrorCategory = "validation_error"
    THEN [o EXCEPT !.branch[wr.task] = "invalid"]
    ELSE o

\* worker: for task := range tasks
WorkerRecv(w) ==
    /\ Alive /\ workers[w].pc = "idle"
    /\ IF taskChan.buf # <<>>
       THEN /\ workers' = [workers EXCEPT ![w] = [@ EXCEPT !.pc = "dequeued",
                                                          !.task = Head(taskChan.buf)]]
            /\ taskChan' = [taskChan EXCEPT !.buf = Tail(@)]
            /\ obs' = [obs EXCEPT !.deq[Head(taskChan.buf)] =
                                      IF ctxDone THEN "cancelled" ELSE "live"]
       ELSE /\ taskChan.closed
            /\ workers' = [workers EXCEPT ![w] = [WorkerNew EXCEPT !.pc = "exit"]]
            /\ UNCHANGED <<taskChan, obs>>
    /\ UNCHANGED <<h, val, cfg, main, tasksChan, reader, feeder, checkpoints, result, ctxDone,
                   logger, logChan, validateLogChan, files, failedRows>>

\* worker: select { case <-ctx.Done(): return; default: r.processTask(...) }
WorkerSelect(w) ==
    /\ Alive /\ workers[w].pc = "dequeued"
    /\ LET wr == workers[w]
           nw == IF ctxDone THEN [WorkerNew EXCEPT !.pc = "exit"] ELSE EnterProcess(wr)
       IN /\ workers' = [workers EXCEPT ![w] = nw]
          /\ obs' = NoteBranch(obs, wr, nw)
    /\ UNCHANGED <<h, val, cfg, main, tasksChan, reader, taskChan, feeder, checkpoints, result,
                   ctxDone, logger, logChan, validateLogChan, files, failedRows>>

\* processTask: if err := r.limiter.Wait(ctx); err != nil { return }
WorkerLimiterWait(w) ==
    /\ Alive /\ workers[w].pc = "limit"
    /\ LET wr == workers[w]
           nw == IF ctxDone THEN BackToLoop(wr) ELSE AfterLimit(wr)
       IN /\ workers' = [workers EXCEPT ![w] = nw]
          /\ obs' = NoteBranch(obs, wr, nw)
    /\ UNCHANGED <<h, val, cfg, main, tasksChan, reader, taskChan, feeder, checkpoints, result,
                   ctxDone, logger, logChan, validateLogChan, files, failedRows>>

\* processTask: if r.isAlreadyProcessed(requestHash) { result.SkippedRows++; return };
\* requestData, err := r.renderer.Render(validationResult.Data)
WorkerCheck(w) ==
    /\ Alive /\ workers[w].pc = "check"
    /\ LET wr == workers[w]
           hash == RowHash(wr.task)
           rd == Render(RC, VRes(w).Data)
           late == IF hash \in obs.okDone THEN {wr.task} ELSE {}
       IN IF isAlreadyProcessed(checkpoints, hash)
          THEN /\ workers' = [workers EXCEPT ![w] = IncThen(wr, "SkippedRows", "idle")]
               /\ obs' = [obs EXCEPT !.branch[wr.task] = "skipped", !.lateCheck = @ \cup late]
          ELSE IF ~rd.err.nil
          THEN /\ workers' = [workers EXCEPT ![w] =
                                [wr EXCEPT !.pc = "cbSend", !.rr = TemplateErrorResult(rd.err)]]
               /\ obs' = [obs EXCEPT !.branch[wr.task] = "template_error",
                                     !.lateCheck = @ \cup late]
          ELSE /\ workers' = [workers EXCEPT ![w] = [wr EXCEPT !.pc = "attempt", !.e = ExecNew]]
               /\ obs' = [obs EXCEPT !.lateCheck = @ \cup late]
    /\ UNCHANGED <<h, val, cfg, main, tasksChan, reader, taskChan, feeder, checkpoints, result,
                   ctxDone, logger, logChan, validateLogChan, files, failedRows>>

\* What the endpoint and the network may answer to the next request of row r: any
\* of cfg.answers, or, when the endpoint follows a plan, the plan's answer to the
\* row's n-th request (its last answer from then on).
ServerAnswers(r) ==
    IF cfg.plan = <<>> THEN cfg.answers
    ELSE LET n == obs.http[r] + 1 IN
         {cfg.plan[IF n < Len(cfg.plan) THEN n ELSE Len(cfg.plan)]}

\* Execute: one iteration of the retry loop, with the answer a of executeRequest.
WorkerAttempt(w) ==
    /\ Alive /\ workers[w].pc = "attempt"
    /\ \E a \in executeRequest(ServerAnswers(workers[w].task), ctxDone) :
         LET wr == workers[w]
             e == ExecAttempt(RC, wr.e, a)
             o == [obs EXCEPT !.http[wr.task] = @ + 1]
         IN IF e.pc = "returned"
            THEN /\ workers' = [workers EXCEPT ![w] = AfterExecute(wr, e)]
                 /\ obs' = [o EXCEPT !.branch[wr.task] =
                                        IF e.Success THEN "success" ELSE "failure"]
            ELSE /\ workers' = [workers EXCEPT ![w] = [wr EXCEPT !.pc = "sleep", !.e = e]]
                 /\ obs' = o
    /\ UNCHANGED <<h, val, cfg, main, tasksChan, reader, taskChan, feeder, checkpoints, result,
                   ctxDone, logger, logChan, validateLogChan, files, failedRows>>

\* Execute: select { ... case <-time.After(backoffDelay): continue }.  The timer
\* is not ready when the select starts, so with the context already cancelled the
\* other case is taken; a timer that fires together with the cancellation is the
\* timer firing first.
WorkerBackoffOver(w) ==
    /\ Alive /\ workers[w].pc = "sleep"
    /\ ~ctxDone
    /\ workers' = [workers EXCEPT ![w] = [@ EXCEPT !.pc = "attempt",
                                                   !.e = ExecBackoffOver(@)]]
    /\ UNCHANGED <<h, val, cfg, main, tasksChan, reader, taskChan, feeder, checkpoints, result,
                   ctxDone, logger, logChan, validateLogChan, files, failedRows, obs>>

\* Execute: select { case <-ctx.Done(): return result ... }
WorkerBackoffCancelled(w) ==
    /\ Alive /\ workers[w].pc = "sleep"
    /\ ctxDone
    /\ workers' = [workers EXCEPT ![w] =
                     AfterExecute(workers[w], ExecBackoffCancelled(workers[w].e))]
    /\ obs' = [obs EXCEPT !.branch[workers[w].task] = "failure"]
    /\ UNCHANGED <<h, val, cfg, main, tasksChan, reader, taskChan, feeder, checkpoints, result,
                   ctxDone, logger, logChan, validateLogChan, files, failedRows>>

\* processTask: r.markAsProcessed(requestHash), then result.SuccessRows++
WorkerMark(w) ==
    /\ Alive /\ workers[w].pc = "mark"
    /\ checkpoints' = markAsProcessed(checkpoints, RowHash(workers[w].task))
    /\ workers' = [workers EXCEPT ![w] = IncThen(@, "SuccessRows", "cbSend")]
    /\ obs' = [obs EXCEPT !.okDone = @ \cup {RowHash(workers[w].task)}]
    /\ UNCHANGED <<h, val, cfg, main, tasksChan, reader, taskChan, feeder, result, ctxDone,
                   logger, logChan, validateLogChan, files, failedRows>>

\* result.<ctr>++: the load
WorkerIncRead(w) ==
    /\ Alive /\ workers[w].pc = "incRead"
    /\ workers' = [workers EXCEPT ![w] = [@ EXCEPT !.pc = "incWrite",
                                                   !.tmp = result[workers[w].ctr]]]
    /\ UNCHANGED <<h, val, cfg, main, tasksChan, reader, taskChan, feeder, checkpoints, result,
                   ctxDone, logger, logChan, validateLogChan, files, failedRows, obs>>

\* result.<ctr>++: the store; the skipped branch returns after it
WorkerIncWrite(w) ==
    /\ Alive /\ workers[w].pc = "incWrite"
    /\ result' = [result EXCEPT ![workers[w].ctr] = workers[w].tmp + 1]
    /\ workers' = [workers EXCEPT ![w] =
                     IF @.next = "idle" THEN BackToLoop(@)
                     ELSE [@ EXCEPT !.pc = workers[w].next, !.ctr = "", !.tmp = 0,
                                    !.next = ""]]
    /\ obs' = [obs EXCEPT !.counted[workers[w].task] = workers[w].ctr]
    /\ UNCHANGED <<h, val, cfg, main, tasksChan, reader, taskChan, feeder, checkpoints,
                   ctxDone, logger, logChan, validateLogChan, files, failedRows>>

(***************************************************************************)
(* The callback: any function of the caller of Run, or, in runExecute,     *)
(* Logger.LogRequest                                                       *)
(***************************************************************************)
\* processTask: if callback != nil { callback(task.RowNumber, validationResult,
\* requestResult) }, for a callback that leaves the Runner's state alone.
WorkerCallback(w) ==
    /\ Alive /\ workers[w].pc \in {"cbValidate", "cbSend"}
    /\ workers' = [workers EXCEPT ![w] = BackToLoop(@)]
    /\ obs' = [obs EXCEPT !.callbacks[workers[w].task] = @ + 1]
    /\ UNCHANGED <<h, val, cfg, main, tasksChan, reader, taskChan, feeder, checkpoints, result,
                   ctxDone, logger, logChan, validateLogChan, files, failedRows>>

\* LogRequest: if !validationResult.Valid { l.validateLogChan <- ...; addFailedRow }
WorkerLogValidation(w) ==
    /\ Alive /\ workers[w].pc = "cbValidate"
    /\ Len(validateLogChan) < LogChanCap
    /\ validateLogChan' = Append(validateLogChan,
                                 [Row |-> workers[w].task, Errors |-> VRes(w).Errors])
    /\ workers' = [workers EXCEPT ![w] = [@ EXCEPT !.pc = "cbFailRead",
                                                   !.reason = "validation_failed",
                                                   !.next = "cbSend"]]
    /\ obs' = [obs EXCEPT !.callbacks[workers[w].task] = @ + 1]
    /\ UNCHANGED <<h, val, cfg, main, tasksChan, reader, taskChan, feeder, checkpoints, result,
                   ctxDone, logger, logChan, files, failedRows>>

\* LogRequest: if requestResult != nil { l.logChan <- entry; if !Success addFailedRow }
\* (processTask never passes a nil requestResult; entry.RequestHash is not set;
\* response bodies are not part of the run's answers, so the preview is empty).
WorkerLogRequest(w) ==
    /\ Alive /\ workers[w].pc = "cbSend"
    /\ Len(logChan) < LogChanCap
    /\ LET wr == workers[w] IN
       /\ logChan' = Append(logChan,
                            [Row |-> wr.task, StatusCode |-> wr.rr.StatusCode,
                             Success |-> wr.rr.Success, Retries |-> wr.rr.Retries,
                             ErrorCategory |-> wr.rr.ErrorCategory,
                             ErrorDetail |-> wr.rr.ErrorDetail,
                             ResponsePreview |-> "", RequestHash |-> ""])
       /\ workers' = [workers EXCEPT ![w] =
                        IF wr.rr.Success THEN BackToLoop(wr)
                        ELSE [wr EXCEPT !.pc = "cbFailRead", !.next = "idle",
                                        !.reason = IF wr.rr.ErrorCategory = ""
                                                   THEN "request_failed"
                                                   ELSE wr.rr.ErrorCategory]]
       /\ obs' = IF VRes(w).Valid THEN [obs EXCEPT !.callbacks[wr.task] = @ + 1] ELSE obs
    /\ UNCHANGED <<h, val, cfg, main, tasksChan, reader, taskChan, feeder, checkpoints, result,
                   ctxDone, logger, validateLogChan, files, failedRows>>

\* addFailedRow: l.failedRows = append(l.failedRows, ...): the load of the slice
WorkerFailRead(w) ==
    /\ Alive /\ workers[w].pc = "cbFailRead"
    /\ workers' = [workers EXCEPT ![w] = [@ EXCEPT !.pc = "cbFailWrite",
                                                   !.ftmp = failedRows]]
    /\ UNCHANGED <<h, val, cfg, main, tasksChan, reader, taskChan, feeder, checkpoints, result,
                   ctxDone, logger, logChan, validateLogChan, files, failedRows, obs>>

\* addFailedRow: the store of the appended slice
WorkerFailWrite(w) ==
    /\ Alive /\ workers[w].pc = "cbFailWrite"
    /\ failedRows' = Append(workers[w].ftmp,
                            [RowNumber |-> workers[w].task, Data |-> VRes(w).Data,
                             Reason |-> workers[w].reason])
    /\ workers' = [workers EXCEPT ![w] =
                     IF @.next = "idle" THEN BackToLoop(@)
                     ELSE [@ EXCEPT !.pc = workers[w].next, !.next = "", !.reason = "",
                                    !.ftmp = <<>>]]
    /\ UNCHANGED <<h, val, cfg, main, tasksChan, reader, taskChan, feeder, checkpoints, result,
                   ctxDone, logger, logChan, validateLogChan, files, obs>>

(***************************************************************************)
(* Logger.runLogger and Logger.Close                                       *)
(***************************************************************************)
\* A text the logger masks is a sequence of one-character strings; Text gives
\* the characters of the column names of the schemas that have secret columns.
Text(name) ==
    CASE name = "id" -> <<"i", "d">>
      [] name = "pw" -> <<"p", "w">>

\* strings.Contains(value, name)
Contains(value, name) ==
    \E i \in 0..(Len(value) - Len(name)) : SubSeq(value, i + 1, i + Len(name)) = name

\* strings.Repeat("*", n)
Stars(n) == [i \in 1..n |-> "*"]

\* maskSensitiveData: the value is masked when some column of the schema is
\* secret and the value contains that column's name; otherwise it is returned
\* as it is (col.Secret is false for a column that does not set it).
maskSensitiveData(value) ==
    IF \E i \in 1..Len(logger.schema.Columns) :
          LET col == logger.schema.Columns[i]
          IN "Secret" \in DOMAIN col /\ col.Secret /\ Contains(value, Text(col.Name))
    THEN IF Len(value) <= 4 THEN Stars(Len(value))
         ELSE SubSeq(value, 1, 2) \o Stars(Len(value) - 4)
              \o SubSeq(value, Len(value) - 1, Len(value))
    ELSE value

\* writeSentLog: the record of sent.csv (without ts, request_id, latency_ms)
SentRecord(entry) ==
    [row |-> entry.Row, status_code |-> entry.StatusCode, success |-> entry.Success,
     retries |-> entry.Retries, error_category |-> entry.ErrorCategory,
     error_detail |-> maskSensitiveData(entry.ErrorDetail),
     response_preview |-> maskSensitiveData(entry.ResponsePreview),
     request_hash |-> entry.RequestHash]

\* writeErrorLog: the record of request_errors.csv
ErrorRecord(entry) ==
    [row |-> entry.Row, error_category |-> entry.ErrorCategory,
     error_detail |-> maskSensitiveData(entry.ErrorDetail),
     status_code |-> entry.StatusCode]

\* writeValidationLog with a loop that stops after the first error of the entry
ValidationRecordsFirst(entry) ==
    [i \in 1..(IF entry.Errors = <<>> THEN 0 ELSE 1) |->
        [row |-> entry.Row, column |-> entry.Errors[i].Column,
         value |-> maskSensitiveData(entry.Errors[i].Value),
         message |-> entry.Errors[i].Message]]

\* writeValidationLog: one record of validate_errors.csv per error of the entry
ValidationRecords(entry) ==
    [i \in 1..Len(entry.Errors) |->
        [row |-> entry.Row, column |-> entry.Errors[i].Column,
         value |-> maskSensitiveData(entry.Errors[i].Value),
         message |-> entry.Errors[i].Message]]

\* runLogger: case entry := <-l.logChan (in the main select and in the drain loop)
LoggerSent ==
    /\ logger.pc \in {"run", "drain"}
    /\ logChan # <<>>
    /\ LET entry == Head(logChan) IN
       files' = [files EXCEPT !.sent = Append(@, SentRecord(entry)),
                              !.errors = IF entry.Success THEN @
                                         ELSE Append(@, ErrorRecord(entry))]
    /\ logChan' = Tail(logChan)
    /\ UNCHANGED <<h, val, cfg, main, tasksChan, reader, taskChan, feeder, workers, checkpoints,
                   result, ctxDone, logger, validateLogChan, failedRows, obs>>

\* runLogger: case validateEntry := <-l.validateLogChan
LoggerValidation ==
    /\ logger.pc \in {"run", "drain"}
    /\ validateLogChan # <<>>
    /\ files' = [files EXCEPT !.validate = @ \o ValidationRecords(Head(validateLogChan))]
    /\ validateLogChan' = Tail(validateLogChan)
    /\ UNCHANGED <<h, val, cfg, main, tasksChan, reader, taskChan, feeder, workers, checkpoints,
                   result, ctxDone, logger, logChan, failedRows, obs>>

\* runLogger: case <-l.stopChan: drain the remaining logs
LoggerStop ==
    /\ logger.pc = "run" /\ logger.stop
    /\ logger' = [logger EXCEPT !.pc = "drain"]
    /\ UNCHANGED <<h, val, cfg, main, tasksChan, reader, taskChan, feeder, workers, checkpoints,
                   result, ctxDone, logChan, validateLogChan, files, failedRows, obs>>

\* runLogger's drain loop with a default that returns while entries are waiting
LoggerDoneEarly ==
    /\ logger.pc = "drain"
    /\ logger' = [logger EXCEPT !.pc = "done"]
    /\ UNCHANGED <<h, val, cfg, main, tasksChan, reader, taskChan, feeder, workers, checkpoints,
                   result, ctxDone, logChan, validateLogChan, files, failedRows, obs>>

\* runLogger: the drain loop's default: return; defer close(l.doneChan)
LoggerDone ==
    /\ logger.pc = "drain"
    /\ logChan = <<>> /\ validateLogChan = <<>>
    /\ logger' = [logger EXCEPT !.pc = "done"]
    /\ UNCHANGED <<h, val, cfg, main, tasksChan, reader, taskChan, feeder, workers, checkpoints,
                   result, ctxDone, logChan, validateLogChan, files, failedRows, obs>>

(***************************************************************************)
(* Run's return and the end of runExecute                                  *)
(***************************************************************************)
\* A Run that returns without waiting for its workers.
RunReturnEarly ==
    /\ main.pc = "run"
    /\ feeder.pc = "done"
    /\ main' = [main EXCEPT !.pc = "returned", !.runResult = result]
    /\ UNCHANGED <<h, val, cfg, tasksChan, reader, taskChan, feeder, workers, checkpoints, result,
                   ctxDone, logger, logChan, validateLogChan, files, failedRows, obs>>

\* Run: wg.Wait() returns when every worker has returned; runExecute then reads
\* the counters of the result.
RunReturn ==
    /\ main.pc = "run"
    /\ \A w \in Workers : workers[w].pc = "exit"
    /\ main' = [main EXCEPT !.pc = "returned", !.runResult = result]
    /\ UNCHANGED <<h, val, cfg, tasksChan, reader, taskChan, feeder, workers, checkpoints, result,
                   ctxDone, logger, logChan, validateLogChan, files, failedRows, obs>>

\* runExecute returns: the deferred cancel(), then the deferred Logger.Close:
\* close(l.stopChan)
CloseLogger ==
    /\ main.pc = "returned"
    /\ main' = [main EXCEPT !.pc = "closing"]
    /\ ctxDone' = TRUE
    /\ logger' = [logger EXCEPT !.stop = TRUE]
    /\ UNCHANGED <<h, val, cfg, tasksChan, reader, taskChan, feeder, workers, checkpoints, result,
                   logChan, validateLogChan, files, failedRows, obs>>

\* Logger.Close: <-l.doneChan, the files are flushed and closed; the command ends.
Exit ==
    /\ main.pc = "closing"
    /\ logger.pc = "done"
    /\ main' = [main EXCEPT !.pc = "exited"]
    /\ UNCHANGED <<h, val, cfg, tasksChan, reader, taskChan, feeder, workers, checkpoints, result,
                   ctxDone, logger, logChan, validateLogChan, files, failedRows, obs>>

\* The same command is executed again on the same input and log directory:
\* NewRunner (an empty index; runExecute does not call LoadCheckpoints, with or
\* without --resume), NewLogger (initLogFiles: os.Create truncates the three files).
RunAgain ==
    /\ main.pc = "exited" /\ main.run = 1
    /\ main' = [pc |-> "new", run |-> 2, loaded |-> FALSE, runResult |-> <<>>,
                prev |-> [runResult |-> main.runResult, http |-> obs.http,
                          interrupted |-> obs.interrupted, sent |-> files.sent]]
    /\ tasksChan' = [buf |-> <<>>, closed |-> FALSE]
    /\ reader' = [pc |-> "off", rowNumber |-> 1]
    /\ taskChan' = [buf |-> <<>>, closed |-> FALSE]
    /\ feeder' = [pc |-> "off", task |-> 0]
    /\ workers' = [w \in Workers |-> WorkerNew]
    /\ checkpoints' = {}
    /\ result' = [TotalRows |-> 0, SuccessRows |-> 0, FailedRows |-> 0, SkippedRows |-> 0]
    /\ ctxDone' = FALSE
    /\ logger' = [pc |-> "run", stop |-> FALSE, schema |-> Schema]
    /\ logChan' = <<>>
    /\ validateLogChan' = <<>>
    /\ files' = [sent |-> <<>>, errors |-> <<>>, validate |-> <<>>]
    /\ failedRows' = <<>>
    /\ obs' = ObsNew
    /\ UNCHANGED <<h, val, cfg>>



(***************************************************************************)
(* Specifications                                                          *)
(***************************************************************************)
\* Bounds of the explored runs.
MaxRows == 2
MaxConcurrency == 2

\* The name fields of the CSV rows: empty (the required check fails), too short
\* for the url template (rendering fails), and two that render.
RowNames == {"", "x", "al", "bo"}

RowLists == UNION {[1..n -> RowNames] : n \in 0..MaxRows}

\* What the server and the network may answer to one attempt.
OkAnswer == Answer("response", 200, NilErr, TRUE)
NotFoundAnswer == Answer("response", 404, NilErr, TRUE)
ServerErrorAnswer == Answer("response", 500, NilErr, TRUE)
UnavailableAnswer == Answer("response", 503, NilErr, TRUE)
TooManyAnswer == Answer("response", 429, NilErr, TRUE)
RefusedAnswer ==
    Answer("transport", 0, Err("dial tcp: connect: connection refused",
                               {"connection refused"}), FALSE)

RunAnswers == {OkAnswer, NotFoundAnswer, RefusedAnswer, CanceledAnswer}

\* The index entries a caller of LoadCheckpoints preloads: the fingerprint of a
\* row named "al".
PreloadSets ==
    {{generateRequestHash(RequestConfig({}, FALSE), [name |-> "al"], <<"name">>)}}

Configs ==
    [concurrency : 1..MaxConcurrency, limiter : BOOLEAN, resume : {FALSE},
     rows : RowLists, answers : {RunAnswers}, statusIn : {{}}, responseKeys : {FALSE},
     plan : {<<>>}]

Init == \E c \in Configs : InitPipe(c)

\* The goroutines of Run and its producer.
RunNext ==
    \/ StartRun
    \/ Interrupt
    \/ ReaderSend
    \/ ReaderClose
    \/ FeederRecv
    \/ FeederSend
    \/ FeederCount
    \/ FeederCancelled
    \/ \E w \in Workers : WorkerRecv(w)
    \/ \E w \in Workers : WorkerSelect(w)
    \/ \E w \in Workers : WorkerLimiterWait(w)
    \/ \E w \in Workers : WorkerCheck(w)
    \/ \E w \in Workers : WorkerAttempt(w)
    \/ \E w \in Workers : WorkerBackoffOver(w)
    \/ \E w \in Workers : WorkerBackoffCancelled(w)
    \/ \E w \in Workers : WorkerMark(w)
    \/ \E w \in Workers : WorkerIncRead(w)
    \/ \E w \in Workers : WorkerIncWrite(w)
    \/ RunReturn

\* Runner.Run, called after an optional LoadCheckpoints, with a callback of the
\* caller.
Next ==
    \/ \E cps \in PreloadSets : LoadCheckpoints(cps)
    \/ RunNext
    \/ \E w \in Workers : WorkerCallback(w)

Spec == Init /\ [][Next]_vars

\* The run command: Run with Logger.LogRequest as its callback.
CmdNext ==
    \/ RunNext
    \/ \E w \in Workers : WorkerLogValidation(w)
    \/ \E w \in Workers : WorkerLogRequest(w)
    \/ \E w \in Workers : WorkerFailRead(w)
    \/ \E w \in Workers : WorkerFailWrite(w)
    \/ LoggerSent
    \/ LoggerValidation
    \/ LoggerStop
    \/ LoggerDone
    \/ CloseLogger
    \/ Exit

\* The run command executed once, and once more on the same input and log
\* directory.
NextCmd ==
    \/ CmdNext
    \/ RunAgain

\* The rows of the input of the command runs, and the plans its endpoint follows:
\* 200 at once; 500, 500, then 200; 429, then 200; 503 always; connection refused always;
\* connection refused twice, then 200.
CmdMaxRows == 1

CmdRowLists == UNION {[1..n -> RowNames] : n \in 0..CmdMaxRows}

CmdPlans ==
    {<<OkAnswer>>,
     <<ServerErrorAnswer, ServerErrorAnswer, OkAnswer>>,
     <<TooManyAnswer, OkAnswer>>,
     <<UnavailableAnswer>>,
     <<RefusedAnswer>>,
     <<RefusedAnswer, RefusedAnswer, OkAnswer>>}

CmdConfigs ==
    [concurrency : 1..MaxConcurrency, limiter : BOOLEAN, resume : BOOLEAN,
     rows : CmdRowLists, answers : {{}}, statusIn : {{}}, responseKeys : {FALSE},
     plan : CmdPlans]

InitCmd == \E c \in CmdConfigs : InitPipe(c)

SpecCmd == InitCmd /\ [][NextCmd]_vars

(***************************************************************************)
(* Properties of Runner.Run                                                *)
(***************************************************************************)
RowValid(r) == ValidateRow(r, RowData(r)).Valid

\* C1: every row a worker dequeues gets exactly one callback, whichever branch it
\* takes; stated for a run that is never cancelled: when Run returns, each row
\* that was dequeued has had its callback once.
C1_OneCallbackPerRow ==
    (main.pc = "returned" /\ ~obs.interrupted) =>
        \A r \in RowNumbers : obs.deq[r] # "no" => obs.callbacks[r] = 1

\* C2: when Run returns, TotalRows = SuccessRows + FailedRows + SkippedRows; stated
\* for a run that is never cancelled.
C2_CountersAddUp ==
    (main.pc = "returned" /\ ~obs.interrupted) =>
        main.runResult.TotalRows =
            main.runResult.SuccessRows + main.runResult.FailedRows
            + main.runResult.SkippedRows

\* C3: a valid row whose fingerprint was preloaded with LoadCheckpoints is skipped:
\* no HTTP call is ever issued for it, the idempotency check sends it to the
\* skipped branch, and when its processing has ended SkippedRows++ has been
\* executed for it (with one worker, so without concurrent increments, SkippedRows
\* is the number of rows skipped so far).
C3_PreloadedRowSkipped ==
    /\ \A r \in RowNumbers :
         (RowValid(r) /\ RowHash(r) \in obs.preloaded) =>
            /\ obs.http[r] = 0
            /\ obs.branch[r] \in {"", "skipped"}
            /\ \A w \in Workers :
                 (workers[w].task = r /\ workers[w].pc \notin {"dequeued", "limit", "check"})
                    => workers[w].ctr = "SkippedRows"
            /\ (obs.branch[r] = "skipped" /\ \A w \in Workers : workers[w].task # r)
                    => obs.counted[r] = "SkippedRows"
    /\ cfg.concurrency = 1 =>
         result.SkippedRows = Cardinality({r \in RowNumbers : obs.counted[r] = "SkippedRows"})

\* C3 witness: Run has returned after skipping a preloaded row and sending another.
C3_Witness ==
    /\ main.pc = "returned"
    /\ \E r \in RowNumbers : /\ RowHash(r) \in obs.preloaded
                             /\ obs.counted[r] = "SkippedRows"
    /\ \E r \in RowNumbers : obs.http[r] > 0
    /\ main.runResult.SkippedRows = 1

\* C4: once a row with fingerprint F has completed successfully and F has been
\* marked, every row with fingerprint F whose idempotency check happens afterwards
\* takes the skipped branch and issues no HTTP call.
C4_SkipAfterSuccess ==
    \A r \in obs.lateCheck : obs.branch[r] = "skipped" /\ obs.http[r] = 0

\* C4 witness: with two workers, a row was checked after a row of the same
\* fingerprint had succeeded in this run (nothing was preloaded).
C4_Witness ==
    /\ main.pc = "returned"
    /\ cfg.concurrency = 2
    /\ obs.preloaded = {}
    /\ obs.lateCheck # {}
    /\ main.runResult.SuccessRows = 1 /\ main.runResult.SkippedRows = 1

(***************************************************************************)
(* Properties of the run command                                           *)
(***************************************************************************)
\* The rows for which processTask calls Execute when nothing is in the index.
RowSends(r) == RowValid(r) /\ Render(RC, RowData(r)).err.nil

\* The records of sent.csv for row r.
SentOf(r) == SelectSeq(files.sent, LAMBDA rec : rec.row = r)

\* A first execution of the command that ended without being cancelled.
FirstRunDone == main.run = 1 /\ main.pc = "exited" /\ ~obs.interrupted

\* C5: when the command is executed a second time with --resume on the same input
\* and log directory, after a first run in which every row succeeded, the second
\* run issues no HTTP call and ends with skipped = total: the first run wrote the
\* fingerprints to sent.csv (request_hash) and the second run has them in its index.
C5_ResumeSkipsAll ==
    ( /\ main.run = 2 /\ main.pc = "exited" /\ cfg.resume
      /\ ~main.prev.interrupted /\ ~obs.interrupted
      /\ cfg.rows # <<>>
      /\ main.prev.runResult.SuccessRows = Len(cfg.rows)
      /\ main.prev.runResult.TotalRows = Len(cfg.rows) )
    => /\ \A r \in RowNumbers : obs.http[r] = 0
       /\ main.runResult.SkippedRows = main.runResult.TotalRows
       /\ \A i \in 1..Len(main.prev.sent) : main.prev.sent[i].request_hash # ""
       /\ \A r \in RowNumbers : isAlreadyProcessed(checkpoints, RowHash(r))

\* The plans in which k responses of status 5xx or 429 (k <= maxRetries) are
\* followed by a response of a success status.
RetryThenSuccessPlans ==
    {p \in CmdPlans :
        /\ Len(p) - 1 \in 1..maxRetries
        /\ \A i \in 1..(Len(p) - 1) :
              /\ p[i].kind = "response" /\ p[i].err.nil
              /\ (p[i].status \in 500..599 \/ p[i].status = 429)
        /\ p[Len(p)].err.nil /\ IsSuccessStatus(RC, p[Len(p)].status)}

\* C9: when the endpoint answers k times with a status 5xx or 429 and then with a
\* success status (500, 500, 200), Execute makes k + 1 attempts and the row's
\* outcome has retries = k and success true.
C9_RetryThenSuccess ==
    (FirstRunDone /\ cfg.plan \in RetryThenSuccessPlans)
    => \A r \in RowNumbers :
          RowSends(r) =>
             /\ obs.http[r] = Len(cfg.plan)
             /\ Len(SentOf(r)) = 1
             /\ SentOf(r)[1].retries = Len(cfg.plan) - 1
             /\ SentOf(r)[1].success

\* C10: when every attempt fails with a transport error or with a 503, the row is
\* attempted 1 + max_retries times and then recorded as failed with
\* retries = max_retries and an error_category that is not empty.
C10_RetriesExhausted ==
    ( /\ FirstRunDone
      /\ cfg.plan \in {<<RefusedAnswer>>, <<UnavailableAnswer>>} )
    => \A r \in RowNumbers :
          RowSends(r) =>
             /\ obs.http[r] = 1 + maxRetries
             /\ Len(SentOf(r)) = 1
             /\ ~SentOf(r)[1].success
             /\ SentOf(r)[1].retries = maxRetries
             /\ SentOf(r)[1].error_category # ""
             /\ \E i \in 1..Len(files.errors) : files.errors[i].row = r

UniqueSchema ==
    [Columns |-> <<[Name |-> "c", Type |-> "string", Required |-> FALSE, Trim |-> TRUE]>>,
     TreatEmptyAsNull |-> FALSE, Uniqueness |-> <<[Columns |-> <<"c">>]>>]

\* checkUniqueness's two loops, flattened: the columns of the rules in order.
RECURSIVE UniqueColumnsFrom(_, _)
UniqueColumnsFrom(rules, i) ==
    IF i > Len(rules) THEN <<>> ELSE rules[i].Columns \o UniqueColumnsFrom(rules, i + 1)

UniqueColumns(schema) == UniqueColumnsFrom(schema.Uniqueness, 1)

\* Bounds: the rows of the input and the worker goroutines that validate them.
UniqueMaxRows == 3
UniqueGoroutines == 2

UniqueValues == {"", "a", " a ", "b"}

UniqueRowLists == UNION {[1..n -> UniqueValues] : n \in 1..UniqueMaxRows}

GoroutineNew == [pc |-> "idle", row |-> 0, res |-> <<>>, k |-> 0, got |-> FALSE]

\* NewValidator: the seen maps are empty; the rows wait in the task channel.
InitUnique ==
    /\ \E rows \in UniqueRowLists :
         val = [rows |-> rows, next |-> 1, seen |-> {},
                g |-> [w \in 1..UniqueGoroutines |-> GoroutineNew],
                out |-> [r \in 1..Len(rows) |-> <<>>], fault |-> FALSE]
    /\ h = <<>>
    /\ PipeOff

\* The ValidationResult of row r before checkUniqueness.
UniqueBase(r) ==
    ValidateColumns(UniqueSchema, r, [c \in {"c"} |-> val.rows[r]], 1, NewValidationResult)

\* ValidateRow returns result: the goroutine is back in the worker's loop.
UniqueReturn(w, res) ==
    [val EXCEPT !.g[w] = GoroutineNew, !.out[val.g[w].row] = res]

\* worker: task received; processTask: ValidateRow's loop over the columns, then
\* `if result.Valid { v.checkUniqueness(rowNum, result) }`
UniqueTake(w) ==
    /\ ~val.fault /\ val.g[w].pc = "idle" /\ val.next <= Len(val.rows)
    /\ LET r == val.next
           res == UniqueBase(r)
           v1 == [val EXCEPT !.next = r + 1,
                             !.g[w] = [pc |-> "uLoad", row |-> r, res |-> res, k |-> 1,
                                       got |-> FALSE]]
       IN val' = IF res.Valid /\ UniqueColumns(UniqueSchema) # <<>> THEN v1
                 ELSE [val EXCEPT !.next = r + 1, !.out[r] = res]
    /\ UNCHANGED <<h, pipeVars>>

\* checkUniqueness: value := result.Data[col]; if value == "" { continue };
\* the read of v.seen[col][value]
UniqueLoad(w) ==
    /\ ~val.fault /\ val.g[w].pc = "uLoad"
    /\ LET g == val.g[w]
           col == UniqueColumns(UniqueSchema)[g.k]
           value == g.res.Data[col]
           last == g.k = Len(UniqueColumns(UniqueSchema))
       IN val' = IF value # ""
                 THEN [val EXCEPT !.g[w].pc = "uStore",
                                  !.g[w].got = <<col, value>> \in val.seen]
                 ELSE IF last THEN UniqueReturn(w, g.res)
                 ELSE [val EXCEPT !.g[w].k = g.k + 1]
    /\ UNCHANGED <<h, pipeVars>>

\* checkUniqueness: if seen { result.Valid = false; append the duplicate error }
\* else { v.seen[col][value] = true }; after the last column ValidateRow returns
\* (the schema has no row rule).
UniqueStore(w) ==
    /\ ~val.fault /\ val.g[w].pc = "uStore"
    /\ LET g == val.g[w]
           col == UniqueColumns(UniqueSchema)[g.k]
           value == g.res.Data[col]
           last == g.k = Len(UniqueColumns(UniqueSchema))
           res == IF g.got
                  THEN AddError(g.res, g.row, col, value,
                                "duplicate value violates uniqueness constraint")
                  ELSE g.res
           seen == IF g.got THEN val.seen ELSE val.seen \cup {<<col, value>>}
       IN val' = IF last THEN [UniqueReturn(w, res) EXCEPT !.seen = seen]
                 ELSE [val EXCEPT !.seen = seen, !.g[w].res = res, !.g[w].k = g.k + 1,
                                  !.g[w].pc = "uLoad", !.g[w].got = FALSE]
    /\ UNCHANGED <<h, pipeVars>>

\* The map v.seen[col] is written by one goroutine while another reads or writes
\* it, with no lock: the Go runtime may stop the process (fatal error: concurrent
\* map read and map write / concurrent map writes).
UniqueFault ==
    /\ ~val.fault
    /\ \E w1, w2 \in 1..UniqueGoroutines :
         /\ w1 # w2
         /\ val.g[w1].pc = "uStore" /\ ~val.g[w1].got
         /\ val.g[w2].pc \in {"uLoad", "uStore"}
    /\ val' = [val EXCEPT !.fault = TRUE]
    /\ UNCHANGED <<h, pipeVars>>

NextUnique ==
    \/ \E w \in 1..UniqueGoroutines : UniqueTake(w)
    \/ \E w \in 1..UniqueGoroutines : UniqueLoad(w)
    \/ \E w \in 1..UniqueGoroutines : UniqueStore(w)
    \/ UniqueFault

SpecUnique == InitUnique /\ [][NextUnique]_vars

UniqueDone == \A r \in 1..Len(val.rows) : val.out[r] # <<>>

IsDuplicateError(e) == e.Message = "duplicate value violates uniqueness constraint"

\* C12: under any interleaving of the workers, among the otherwise-valid rows that
\* share a non-empty normalized value of the unique column exactly one passes
\* validation and every other one fails with a duplicate error.
C12_OnePassesPerValue ==
    (UniqueDone /\ ~val.fault) =>
        \A x \in {TrimSpace(y) : y \in UniqueValues} \ {""} :
            LET R == {r \in 1..Len(val.rows) :
                        UniqueBase(r).Valid /\ UniqueBase(r).Data["c"] = x}
            IN R # {} =>
                 /\ Cardinality({r \in R : val.out[r].Valid}) = 1
                 /\ \A r \in R : ~val.out[r].Valid =>
                       \E i \in 1..Len(val.out[r].Errors) :
                           IsDuplicateError(val.out[r].Errors[i])

(***************************************************************************)
(* Validator.ValidateRow on one row                                        *)
(***************************************************************************)
\* A schema with a required int column and an optional string column that is
\* trimmed, limited to 3 characters and checked by a custom validator (letters
\* only).  It has no uniqueness rule and no row rule, so checkUniqueness and
\* validateRowRules add nothing to the result.
LettersOnly ==
    [Regex |-> "^[a-z]*$", Matches |-> {"", "a", "abc", "abcdef"}, Message |-> "letters only"]

RowSchema(treatEmptyAsNull) ==
    [Columns |-> <<[Name |-> "id", Type |-> "int", Required |-> TRUE],
                   [Name |-> "note", Type |-> "string", Required |-> FALSE, Trim |-> TRUE,
                    MaxLen |-> 3, Validators |-> <<LettersOnly>>]>>,
     TreatEmptyAsNull |-> treatEmptyAsNull, Uniqueness |-> <<>>]

SchemaColumnNames(schema) == {schema.Columns[i].Name : i \in 1..Len(schema.Columns)}

\* The values a column of the row may hold; Absent: the map has no such key.
Absent == "<absent>"
IdValues == {Absent, "", "7", "42", "x1"}
NoteValues == {Absent, "", "a", " a ", "abc", "abcdef", "abc1def"}

\* The map[string]string of a row
RowMap(id, note) ==
    [k \in ({"id"} \ (IF id = Absent THEN {"id"} ELSE {}))
            \cup ({"note"} \ (IF note = Absent THEN {"note"} ELSE {})) |->
        IF k = "id" THEN id ELSE note]

InitRow ==
    /\ \E id \in IdValues, note \in NoteValues, n \in BOOLEAN :
         val = [pc |-> "input", schema |-> RowSchema(n), data |-> RowMap(id, note),
                res |-> <<>>]
    /\ h = <<>>
    /\ PipeOff

\* ValidateRow(1, data)
ValidateOneRow ==
    /\ val.pc = "input"
    /\ val' = [val EXCEPT !.pc = "done",
                          !.res = ValidateColumns(val.schema, 1, val.data, 1,
                                                  NewValidationResult)]
    /\ UNCHANGED <<h, pipeVars>>

NextRow == ValidateOneRow

SpecRow == InitRow /\ [][NextRow]_vars

\* The column of the schema named name.
ColumnOf(schema, name) ==
    CHOOSE c \in Range(schema.Columns) : c.Name = name

\* The raw value of a column in the input row, "" when the key is absent.
RawOf(data, name) == IF name \in DOMAIN data THEN data[name] ELSE ""

\* The checks of the schema that the value of column col violates.
ViolatedChecks(schema, data, col) ==
    LET raw == RawOf(data, col.Name)
        value == preprocess(raw, col)
    IN IF raw = ""
       THEN (IF col.Required THEN {<<"required", 0>>} ELSE {})
       ELSE (IF validateType(value, col.Type) # "" THEN {<<"type", 0>>} ELSE {})
            \cup (IF "MinLen" \in DOMAIN col /\ Len(value) < col.MinLen
                  THEN {<<"min_len", 0>>} ELSE {})
            \cup (IF "MaxLen" \in DOMAIN col /\ Len(value) > col.MaxLen
                  THEN {<<"max_len", 0>>} ELSE {})
            \cup (IF "Validators" \in DOMAIN col
                  THEN {<<"validator", j>> : j \in {j \in 1..Len(col.Validators) :
                                   value \notin col.Validators[j].Matches}}
                  ELSE {})

ErrorsOf(res, name) == SelectSeq(res.Errors, LAMBDA e : e.Column = name)

\* C13: for every input row, valid or not, the Data map of the result has exactly
\* the schema's column names as keys: an absent or empty optional column maps to
\* "", and a column that fails a check is present with its preprocessed value.
C13_DataHasAllColumns ==
    val.pc = "done" =>
        /\ DOMAIN val.res.Data = SchemaColumnNames(val.schema)
        /\ \A name \in SchemaColumnNames(val.schema) :
             LET col == ColumnOf(val.schema, name) IN
             val.res.Data[name] =
                 IF RawOf(val.data, name) = "" THEN ""
                 ELSE preprocess(RawOf(val.data, name), col)

\* C14: ValidateRow does not short-circuit: the report carries one error for every
\* violated check of every column.
C14_AllErrorsCollected ==
    val.pc = "done" =>
        \A name \in SchemaColumnNames(val.schema) :
            Len(ErrorsOf(val.res, name)) =
                Cardinality(ViolatedChecks(val.schema, val.data, ColumnOf(val.schema, name)))

(***************************************************************************)
(* The log files of one execution of the run command                       *)
(***************************************************************************)
\* The records of request_errors.csv and of validate_errors.csv for row r.
ErrorsFileOf(r) == SelectSeq(files.errors, LAMBDA rec : rec.row = r)
ValidateFileOf(r) == SelectSeq(files.validate, LAMBDA rec : rec.row = r)

\* C15: a row that fails validation issues no HTTP call and is reported by a
\* callback without a request result: when the command has ended, the row has
\* lines in validate_errors.csv only, none in sent.csv or request_errors.csv.
C15_InvalidRowOnlyInValidateLog ==
    (main.run = 1 /\ main.pc = "exited") =>
        \A r \in RowNumbers :
            (~RowValid(r) /\ obs.callbacks[r] = 1) =>
                /\ obs.http[r] = 0
                /\ ValidateFileOf(r) # <<>>
                /\ SentOf(r) = <<>>
                /\ ErrorsFileOf(r) = <<>>

(***************************************************************************)
(* The Logger on its own: goroutines call LogRequest, the owner exports    *)
(* the failed rows and calls Close, runLogger writes the files.            *)
(***************************************************************************)
LogCalls == 2
LogGoroutines == 2

\* A schema with a secret column.
LogSchema == [Columns |-> <<[Name |-> "id", Secret |-> FALSE],
                            [Name |-> "pw", Secret |-> TRUE]>>]

\* Values of the secret column: two that differ only in the middle characters
\* and one of at most four characters.
SecretA == <<"s", "3", "c", "r", "e", "t">>
SecretB == <<"s", "3", "x", "y", "e", "t">>
SecretShort == <<"a", "b", "c">>
LogSecrets == {SecretA, SecretB, SecretShort}

\* The arguments of a LogRequest call: the validation result and the request
\* result, <<>> for a nil *RequestResult and <<result>> otherwise.
\* A row that was sent and accepted.
OkCall(s) ==
    [vr |-> [Valid |-> TRUE, Errors |-> <<>>, Data |-> [id |-> <<"7">>, pw |-> s]],
     rr |-> <<[StatusCode |-> 200, Success |-> TRUE, Retries |-> 0, ErrorCategory |-> "",
               ErrorDetail |-> <<>>, ResponsePreview |-> <<"o", "k">>]>>]

\* A row that was sent and refused; the endpoint's body echoes the field.
FailCall(s) ==
    [vr |-> [Valid |-> TRUE, Errors |-> <<>>, Data |-> [id |-> <<"7">>, pw |-> s]],
     rr |-> <<[StatusCode |-> 500, Success |-> FALSE, Retries |-> 3,
               ErrorCategory |-> "http_5xx", ErrorDetail |-> <<"5", "0", "0">>,
               ResponsePreview |-> <<"p", "w", "=">> \o s]>>]

\* A row whose secret column failed validation, with the result processTask
\* builds for it (runner.go: ErrorCategory "validation_error").
InvalidCall(s) ==
    [vr |-> [Valid |-> FALSE,
             Errors |-> <<[Column |-> "pw", Value |-> s, Message |-> "pattern"]>>,
             Data |-> [id |-> <<"7">>]],
     rr |-> <<[StatusCode |-> 0, Success |-> FALSE, Retries |-> 0,
               ErrorCategory |-> "validation_error", ErrorDetail |-> <<"R", "o", "w">>,
               ResponsePreview |-> <<>>]>>]

\* A row with two failing columns, logged with a nil request result.
InvalidNilCall(s) ==
    [vr |-> [Valid |-> FALSE,
             Errors |-> <<[Column |-> "id", Value |-> <<"x">>, Message |-> "type"],
                          [Column |-> "pw", Value |-> s, Message |-> "pattern"]>>,
             Data |-> <<>>],
     rr |-> <<>>]

LogCallPool(s) == {OkCall(s), FailCall(s), InvalidCall(s), InvalidNilCall(s)}

\* NewLogger; call number r is LogRequest(r, cfg.calls[r].vr, cfg.calls[r].rr).
InitLog ==
    /\ \E s \in LogSecrets : cfg \in [calls : [1..LogCalls -> LogCallPool(s)]]
    /\ main = [pc |-> "open", next |-> 1, exported |-> FALSE]
    /\ workers = [g \in 1..LogGoroutines |->
                    [pc |-> "idle", call |-> 0, next |-> "", reason |-> "", ftmp |-> <<>>]]
    /\ logger = [pc |-> "run", stop |-> FALSE, schema |-> LogSchema]
    /\ logChan = <<>> /\ validateLogChan = <<>>
    /\ files = [sent |-> <<>>, errors |-> <<>>, validate |-> <<>>, failed |-> <<>>]
    /\ failedRows = <<>>
    /\ obs = [placedLog |-> {}, placedValidate |-> {}, beforeLog |-> {},
              beforeValidate |-> {}, allBefore |-> FALSE, pendingLog |-> 0,
              pendingValidate |-> 0]
    /\ h = <<>> /\ val = <<>> /\ tasksChan = <<>> /\ reader = <<>> /\ taskChan = <<>>
    /\ feeder = <<>> /\ checkpoints = {} /\ result = <<>> /\ ctxDone = FALSE

LogUnchanged == <<h, val, cfg, tasksChan, reader, taskChan, feeder, checkpoints, result, ctxDone>>

\* A goroutine calls LogRequest for the next row: if !validationResult.Valid
LogTake(g) ==
    /\ workers[g].pc = "idle"
    /\ main.next <= LogCalls
    /\ main' = [main EXCEPT !.next = @ + 1]
    /\ workers' = [workers EXCEPT ![g] =
                     [@ EXCEPT !.call = main.next,
                               !.pc = IF cfg.calls[main.next].vr.Valid THEN "send"
                                      ELSE "validate"]]
    /\ UNCHANGED <<LogUnchanged, logger, logChan, validateLogChan, files, failedRows, obs>>

\* LogRequest: l.validateLogChan <- ValidationLogEntry{...}, then
\* addFailedRow(rowNum, validationResult.Data, "validation_failed")
LogValidate(g) ==
    /\ workers[g].pc = "validate"
    /\ Len(validateLogChan) < LogChanCap
    /\ LET r == workers[g].call
           entry == [Row |-> r, Errors |-> cfg.calls[r].vr.Errors]
       IN /\ validateLogChan' = Append(validateLogChan, entry)
          /\ obs' = [obs EXCEPT !.placedValidate = @ \cup {entry}]
    /\ workers' = [workers EXCEPT ![g] = [@ EXCEPT !.pc = "failRead", !.next = "send",
                                                   !.reason = "validation_failed"]]
    /\ UNCHANGED <<LogUnchanged, main, logger, logChan, files, failedRows>>

\* The LogEntry LogRequest builds from the request result (RequestHash is not set).
LogEntryOf(r, rr) ==
    [Row |-> r, StatusCode |-> rr.StatusCode, Success |-> rr.Success,
     Retries |-> rr.Retries, ErrorCategory |-> rr.ErrorCategory,
     ErrorDetail |-> rr.ErrorDetail, ResponsePreview |-> rr.ResponsePreview,
     RequestHash |-> ""]

\* LogRequest: if requestResult != nil { l.logChan <- entry; if !Success
\* addFailedRow(rowNum, validationResult.Data, reason) }
LogSend(g) ==
    /\ workers[g].pc = "send"
    /\ Len(logChan) < LogChanCap
    /\ LET r == workers[g].call
           rr == cfg.calls[r].rr
       IN IF rr = <<>>
          THEN /\ workers' = [workers EXCEPT ![g] = [@ EXCEPT !.pc = "idle", !.next = ""]]
               /\ UNCHANGED <<logChan, obs>>
          ELSE /\ logChan' = Append(logChan, LogEntryOf(r, rr[1]))
               /\ obs' = [obs EXCEPT !.placedLog = @ \cup {LogEntryOf(r, rr[1])}]
               /\ workers' = [workers EXCEPT ![g] =
                                IF rr[1].Success THEN [@ EXCEPT !.pc = "idle", !.next = ""]
                                ELSE [@ EXCEPT !.pc = "failRead", !.next = "idle",
                                               !.reason = IF rr[1].ErrorCategory = ""
                                                          THEN "request_failed"
                                                          ELSE rr[1].ErrorCategory]]
    /\ UNCHANGED <<LogUnchanged, main, logger, validateLogChan, files, failedRows>>

\* addFailedRow: l.failedRows = append(l.failedRows, ...): the load of the slice
LogFailRead(g) ==
    /\ workers[g].pc = "failRead"
    /\ workers' = [workers EXCEPT ![g] = [@ EXCEPT !.pc = "failWrite", !.ftmp = failedRows]]
    /\ UNCHANGED <<LogUnchanged, main, logger, logChan, validateLogChan, files, failedRows,
                   obs>>

\* addFailedRow: the store of the appended slice
LogFailWrite(g) ==
    /\ workers[g].pc = "failWrite"
    /\ failedRows' = Append(workers[g].ftmp,
                            [RowNumber |-> workers[g].call,
                             Data |-> cfg.calls[workers[g].call].vr.Data,
                             Reason |-> workers[g].reason])
    /\ workers' = [workers EXCEPT ![g] = [@ EXCEPT !.pc = workers[g].next, !.next = "",
                                                   !.reason = "", !.ftmp = <<>>]]
    /\ UNCHANGED <<LogUnchanged, main, logger, logChan, validateLogChan, files, obs>>

\* ExportFailedRows: the record of one failed row: for each column of the schema
\* the value of failedRow.Data if it exists, then the failure reason.
FailedRecord(failedRow) ==
    [values |-> [i \in 1..Len(logger.schema.Columns) |->
                    LET colName == logger.schema.Columns[i].Name
                    IN IF colName \in DOMAIN failedRow.Data THEN failedRow.Data[colName]
                       ELSE <<>>],
     failure_reason |-> failedRow.Reason]

\* runExecute: if exportFailed != "" && GetFailedRowCount() > 0 { ExportFailedRows }
ExportFailedRows ==
    /\ main.pc = "open" /\ ~main.exported
    /\ Len(failedRows) > 0
    /\ main' = [main EXCEPT !.exported = TRUE]
    /\ files' = [files EXCEPT !.failed = [i \in 1..Len(failedRows) |->
                                             FailedRecord(failedRows[i])]]
    /\ UNCHANGED <<LogUnchanged, workers, logger, logChan, validateLogChan, failedRows, obs>>

\* Logger.Close: close(l.stopChan)
LogClose ==
    /\ main.pc = "open"
    /\ main' = [main EXCEPT !.pc = "closing"]
    /\ logger' = [logger EXCEPT !.stop = TRUE]
    /\ obs' = [obs EXCEPT !.beforeLog = obs.placedLog,
                          !.beforeValidate = obs.placedValidate,
                          !.pendingLog = Len(logChan),
                          !.pendingValidate = Len(validateLogChan),
                          !.allBefore = /\ main.next > LogCalls
                                        /\ \A g \in DOMAIN workers : workers[g].pc = "idle"]
    /\ UNCHANGED <<LogUnchanged, workers, logChan, validateLogChan, files, failedRows>>

\* Logger.Close: <-l.doneChan, then the three writers are flushed and the files
\* closed (every write was already followed by a Flush).
LogClosed ==
    /\ main.pc = "closing"
    /\ logger.pc = "done"
    /\ main' = [main EXCEPT !.pc = "closed"]
    /\ UNCHANGED <<LogUnchanged, workers, logger, logChan, validateLogChan, files,
                   failedRows, obs>>

NextLog ==
    \/ \E g \in 1..LogGoroutines : LogTake(g)
    \/ \E g \in 1..LogGoroutines : LogValidate(g)
    \/ \E g \in 1..LogGoroutines : LogSend(g)
    \/ \E g \in 1..LogGoroutines : LogFailRead(g)
    \/ \E g \in 1..LogGoroutines : LogFailWrite(g)
    \/ ExportFailedRows
    \/ LogClose
    \/ LogClosed
    \/ LoggerSent
    \/ LoggerValidation
    \/ LoggerStop
    \/ LoggerDone

SpecLog == InitLog /\ [][NextLog]_vars

\* C16: after Close has returned, when every LogRequest call had returned before
\* Close was called: sent.csv has exactly one record for each call with a request
\* result, request_errors.csv exactly one for each of those whose result has
\* success = false and none for a successful one, and validate_errors.csv exactly
\* one record per validation error of each call with an invalid row.
C16_LogStreamsConsistent ==
    (main.pc = "closed" /\ obs.allBefore) =>
        \A r \in 1..LogCalls :
            LET call == cfg.calls[r] IN
            /\ Len(SentOf(r)) = Len(call.rr)
            /\ Len(ErrorsFileOf(r)) = IF call.rr # <<>> /\ ~call.rr[1].Success THEN 1 ELSE 0
            /\ Len(ValidateFileOf(r)) = IF call.vr.Valid THEN 0 ELSE Len(call.vr.Errors)
            /\ \A i \in 1..Len(ValidateFileOf(r)) :
                  ValidateFileOf(r)[i].column = call.vr.Errors[i].Column

\* Close has returned after calls that logged a successful result, a failed one
\* and an invalid row with two validation errors.
C16_Witness ==
    /\ main.pc = "closed" /\ obs.allBefore
    /\ \E r \in 1..LogCalls : Len(cfg.calls[r].vr.Errors) = 2 /\ Len(ValidateFileOf(r)) = 2
    /\ \E r \in 1..LogCalls :
          /\ cfg.calls[r].rr # <<>> /\ ~cfg.calls[r].rr[1].Success
          /\ Len(SentOf(r)) = 1 /\ Len(ErrorsFileOf(r)) = 1

\* C17: when Close has returned, every entry a LogRequest call placed on logChan
\* or on validateLogChan before Close was called is in its file, whatever order
\* runLogger's select took the stop signal and the two channels in.
C17_CloseLosesNothing ==
    main.pc = "closed" =>
        /\ \A entry \in obs.beforeLog :
              /\ \E i \in 1..Len(files.sent) : files.sent[i] = SentRecord(entry)
              /\ ~entry.Success =>
                    \E i \in 1..Len(files.errors) : files.errors[i] = ErrorRecord(entry)
        /\ \A entry \in obs.beforeValidate :
              ValidateFileOf(entry.Row) = ValidationRecords(entry)

\* Close was called while an entry was waiting on each channel, and has returned.
C17_Witness ==
    /\ main.pc = "closed"
    /\ obs.pendingLog >= 1 /\ obs.pendingValidate >= 1
    /\ Len(files.sent) >= 1 /\ Len(files.validate) >= 1

\* The masked form of a secret value: its first two and last two characters with
\* stars between them, all stars when it has at most four characters.
Masked(v) ==
    IF Len(v) <= 4 THEN [i \in 1..Len(v) |-> "*"]
    ELSE [i \in 1..Len(v) |-> IF i <= 2 \/ i > Len(v) - 2 THEN v[i] ELSE "*"]

SecretColumnNames ==
    {logger.schema.Columns[i].Name : i \in {j \in 1..Len(logger.schema.Columns) :
                                               logger.schema.Columns[j].Secret}}

\* C18: the logger writes no value of a secret column unmasked: the value field
\* of a validate_errors.csv record for a secret column and the field of a secret
\* column in the failed-row export hold the masked form of the value.
C18_SecretsMasked ==
    /\ \A i \in 1..Len(files.validate) :
          LET rec == files.validate[i] IN
          rec.column \in SecretColumnNames =>
              \E e \in Range(cfg.calls[rec.row].vr.Errors) :
                  e.Column = rec.column /\ rec.value = Masked(e.Value)
    /\ \A i \in 1..Len(files.failed) : \A c \in 1..Len(logger.schema.Columns) :
          (logger.schema.Columns[c].Secret /\ files.failed[i].values[c] # <<>>) =>
              \E s \in LogSecrets : files.failed[i].values[c] = Masked(s)

(***************************************************************************)
(* CSVReader.ReadRows on its own, with a consumer of the task channel      *)
(***************************************************************************)
ReaderMaxRows == 2
ReaderChanCap == 1

\* The schema of the reader: columns id and note.
ReaderSchema == RowSchema(FALSE)

\* Schema.GetColumnNames: the names of the columns in schema order.
GetColumnNames(schema) == [i \in 1..Len(schema.Columns) |-> schema.Columns[i].Name]

\* csvReader.TrimLeadingSpace = true: leading white space of a field is dropped.
TrimLeadingSpace(field) ==
    CASE field = " id" -> "id"
      [] field = " a" -> "a"
      [] OTHER -> field

\* Header records of the file: the schema's names, the same with a leading
\* space, one column missing, one column more, two columns exchanged, and a
\* name in another letter case.
ReaderHeaders ==
    {<<"id", "note">>, <<" id", "note">>, <<"id">>, <<"id", "note", "x">>,
     <<"note", "id">>, <<"ID", "note">>, <<"id", "Note">>}

\* Data records: two well-formed ones and one with a field missing.
ReaderRecords == {<<"7", "a">>, <<"8", " a">>, <<"9">>}

\* The CSV file: missing, empty, or a header record followed by data records.
ReaderFiles ==
    {[exists |-> FALSE, records |-> <<>>], [exists |-> TRUE, records |-> <<>>]}
    \cup {[exists |-> TRUE, records |-> <<hd>> \o rows] :
            hd \in ReaderHeaders,
            rows \in UNION {[1..n -> ReaderRecords] : n \in 0..ReaderMaxRows}}

\* csvReader.Read() with FieldsPerRecord = n: the next record with its fields
\* trimmed, io.EOF at the end of the file, ErrFieldCount for a record that does
\* not have n fields.
csvRead(file, pos, n) ==
    IF pos > Len(file.records) THEN [record |-> <<>>, err |-> "EOF"]
    ELSE LET raw == file.records[pos]
             record == [i \in 1..Len(raw) |-> TrimLeadingSpace(raw[i])]
         IN [record |-> record,
             err |-> IF Len(record) # n THEN "wrong number of fields" ELSE ""]

\* for i, value := range record { if i < len(headers) { data[headers[i]] = value } }
RecordData(headers, record) ==
    [name \in Range(headers) |->
        record[CHOOSE i \in 1..Len(record) : i <= Len(headers) /\ headers[i] = name]]

\* validateHeaders with the comparison of the names left out
validateHeadersCountOnly(headers, expectedHeaders) ==
    IF Len(headers) # Len(expectedHeaders) THEN "header count mismatch" ELSE ""

\* validateHeaders: "" for nil
validateHeaders(headers, expectedHeaders) ==
    IF Len(headers) # Len(expectedHeaders) THEN "header count mismatch"
    ELSE IF \E i \in 1..Len(headers) : headers[i] # expectedHeaders[i]
         THEN "header mismatch at position"
         ELSE ""

InitReader ==
    /\ cfg \in [file : ReaderFiles]
    /\ reader = [pc |-> "open", rowNumber |-> 1, pos |-> 1, headers |-> <<>>, err |-> ""]
    /\ tasksChan = [buf |-> <<>>, closed |-> FALSE]
    /\ obs = [sent |-> 0, received |-> 0, closes |-> 0]
    /\ h = <<>> /\ val = <<>> /\ main = <<>> /\ taskChan = <<>> /\ feeder = <<>>
    /\ workers = <<>> /\ checkpoints = {} /\ result = <<>> /\ ctxDone = FALSE
    /\ logger = <<>> /\ logChan = <<>> /\ validateLogChan = <<>> /\ files = <<>>
    /\ failedRows = <<>>

ReaderUnchanged ==
    <<h, val, cfg, main, taskChan, feeder, workers, checkpoints, result, ctxDone, logger,
      logChan, validateLogChan, files, failedRows>>

\* ReadRows returns err ("" for nil): the deferred close(tasksChan) runs.
ReadReturn(err) ==
    /\ reader' = [reader EXCEPT !.pc = "returned", !.err = err]
    /\ tasksChan' = [tasksChan EXCEPT !.closed = TRUE]
    /\ obs' = [obs EXCEPT !.closes = @ + 1]

\* ReadRows: os.Open(r.filename)
ReadOpen ==
    /\ reader.pc = "open"
    /\ IF cfg.file.exists
       THEN /\ reader' = [reader EXCEPT !.pc = "header"]
            /\ UNCHANGED <<tasksChan, obs>>
       ELSE ReadReturn("failed to open CSV file")
    /\ UNCHANGED ReaderUnchanged

\* ReadRows: headers, err := csvReader.Read(); validateHeaders(headers, expected)
ReadHeader ==
    /\ reader.pc = "header"
    /\ LET expectedHeaders == GetColumnNames(ReaderSchema)
           r == csvRead(cfg.file, 1, Len(ReaderSchema.Columns))
       IN IF r.err # "" THEN ReadReturn("failed to read CSV header")
          ELSE IF validateHeaders(r.record, expectedHeaders) # ""
               THEN ReadReturn("header validation failed")
               ELSE /\ reader' = [reader EXCEPT !.pc = "rows", !.pos = 2,
                                                !.headers = r.record]
                    /\ UNCHANGED <<tasksChan, obs>>
    /\ UNCHANGED ReaderUnchanged

\* ReadRows: the loop over the data records: io.EOF ends it, another error is
\* returned, a record is sent as RowTask{rowNumber, data} and rowNumber++.
ReadRow ==
    /\ reader.pc = "rows"
    /\ LET r == csvRead(cfg.file, reader.pos, Len(ReaderSchema.Columns))
       IN IF r.err = "EOF" THEN ReadReturn("")
          ELSE IF r.err # "" THEN ReadReturn("failed to read CSV row")
               ELSE /\ Len(tasksChan.buf) < ReaderChanCap
                    /\ tasksChan' =
                          [tasksChan EXCEPT !.buf =
                              Append(@, [RowNumber |-> reader.rowNumber,
                                         Data |-> RecordData(reader.headers, r.record)])]
                    /\ reader' = [reader EXCEPT !.rowNumber = @ + 1, !.pos = @ + 1]
                    /\ obs' = [obs EXCEPT !.sent = @ + 1]
    /\ UNCHANGED ReaderUnchanged

\* The consumer of the channel: for task := range tasksChan
ReaderConsume ==
    /\ tasksChan.buf # <<>>
    /\ tasksChan' = [tasksChan EXCEPT !.buf = Tail(@)]
    /\ obs' = [obs EXCEPT !.received = @ + 1]
    /\ UNCHANGED <<ReaderUnchanged, reader>>

NextReader == ReadOpen \/ ReadHeader \/ ReadRow \/ ReaderConsume

SpecReader == InitReader /\ [][NextReader]_vars

\* The header record of the file, as the csv reader returns it, is not the
\* sequence of the schema's column names.
HeaderDiffers ==
    /\ cfg.file.exists /\ cfg.file.records # <<>>
    /\ [i \in 1..Len(cfg.file.records[1]) |-> TrimLeadingSpace(cfg.file.records[1][i])]
          # GetColumnNames(ReaderSchema)

\* C19: when the header record differs from the schema's column names in count,
\* in a position or in letter case, ReadRows sends no RowTask, returns an error
\* and leaves the task channel closed; whenever ReadRows has returned (success,
\* open failure, header error, malformed row) the channel was closed exactly once.
C19_HeaderMismatchFailsStream ==
    /\ HeaderDiffers => obs.sent = 0
    /\ (HeaderDiffers /\ reader.pc = "returned") => reader.err # ""
    /\ reader.pc = "returned" => (tasksChan.closed /\ obs.closes = 1)
    /\ reader.pc # "returned" => (~tasksChan.closed /\ obs.closes = 0)

\* ReadRows has returned on a file with data rows whose header differs from the
\* schema only in the letter case of a name.
C19_Witness ==
    /\ reader.pc = "returned"
    /\ cfg.file.exists /\ Len(cfg.file.records) = 1 + ReaderMaxRows
    /\ cfg.file.records[1] = <<"ID", "note">>
    /\ reader.err = "header validation failed" /\ tasksChan.closed /\ obs.sent = 0

(***************************************************************************)
(* The commands validate, render and run on a CSV file                     *)
(***************************************************************************)
RenderLimit == 1

\* GetPreviewRows(limit): the header is read (FieldsPerRecord = number of
\* columns) and is not compared with the schema; then up to limit data records.
RECURSIVE PreviewFrom(_, _, _, _, _)
PreviewFrom(file, headers, pos, limit, rows) ==
    IF Len(rows) >= limit THEN [rows |-> rows, err |-> ""]
    ELSE LET r == csvRead(file, pos, Len(ReaderSchema.Columns))
         IN IF r.err = "EOF" THEN [rows |-> rows, err |-> ""]
            ELSE IF r.err # "" THEN [rows |-> <<>>, err |-> "failed to read CSV row"]
                 ELSE PreviewFrom(file, headers, pos + 1, limit,
                                  Append(rows, RecordData(headers, r.record)))

GetPreviewRows(file, limit) ==
    IF ~file.exists THEN [rows |-> <<>>, err |-> "failed to open CSV file"]
    ELSE LET hd == csvRead(file, 1, Len(ReaderSchema.Columns))
         IN IF hd.err # "" THEN [rows |-> <<>>, err |-> "failed to read CSV header"]
            ELSE PreviewFrom(file, hd.record, 2, limit, <<>>)

\* val.ValidateRow(i+1, row) with the schema of the reader
PreviewValid(rows, i) ==
    ValidateColumns(ReaderSchema, i, rows[i], 1, NewValidationResult).Valid

InitCommands ==
    /\ cfg \in [command : {"validate", "render", "run"}, file : ReaderFiles,
                strict : BOOLEAN]
    /\ main = [pc |-> "start", exitCode |-> 0]
    /\ reader = [pc |-> "off", rowNumber |-> 1, pos |-> 1, headers |-> <<>>, err |-> ""]
    /\ tasksChan = [buf |-> <<>>, closed |-> FALSE]
    /\ obs = [sent |-> 0, received |-> 0, closes |-> 0, processed |-> 0, http |-> 0]
    /\ ctxDone = FALSE
    /\ h = <<>> /\ val = <<>> /\ taskChan = <<>> /\ feeder = <<>>
    /\ workers = <<>> /\ checkpoints = {} /\ result = <<>>
    /\ logger = <<>> /\ logChan = <<>> /\ validateLogChan = <<>> /\ files = <<>>
    /\ failedRows = <<>>

CommandsUnchanged ==
    <<h, val, cfg, taskChan, feeder, workers, checkpoints, result, logger, logChan,
      validateLogChan, files, failedRows>>

\* runValidate: an error of GetPreviewRows is returned (main: os.Exit(1)); else
\* every row is validated, and the command exits 1 under --strict with errors.
CmdValidate ==
    /\ cfg.command = "validate" /\ main.pc = "start"
    /\ LET p == GetPreviewRows(cfg.file, Len(cfg.file.records))
           invalid == {i \in 1..Len(p.rows) : ~PreviewValid(p.rows, i)}
       IN /\ main' = [pc |-> "exited",
                      exitCode |-> IF p.err # "" \/ (cfg.strict /\ invalid # {}) THEN 1
                                   ELSE 0]
          /\ obs' = [obs EXCEPT !.processed = Len(p.rows)]
    /\ UNCHANGED <<CommandsUnchanged, reader, tasksChan, ctxDone>>

\* runRender: an error of GetPreviewRows(limit) is returned; else every row is
\* validated and the valid ones rendered to the preview file; return nil.
CmdRender ==
    /\ cfg.command = "render" /\ main.pc = "start"
    /\ LET p == GetPreviewRows(cfg.file, RenderLimit)
       IN /\ main' = [pc |-> "exited", exitCode |-> IF p.err # "" THEN 1 ELSE 0]
          /\ obs' = [obs EXCEPT !.processed = Len(p.rows)]
    /\ UNCHANGED <<CommandsUnchanged, reader, tasksChan, ctxDone>>

\* runExecute: go func() { if err := csvReader.ReadRows(tasksChan) ... }() and
\* runnerInstance.Run(ctx, tasksChan, callback)
CmdRunStart ==
    /\ cfg.command = "run" /\ main.pc = "start"
    /\ main' = [main EXCEPT !.pc = "run"]
    /\ reader' = [reader EXCEPT !.pc = "open"]
    /\ UNCHANGED <<CommandsUnchanged, tasksChan, ctxDone, obs>>

\* runExecute's reader goroutine: ReadRows returned an error: it is printed and
\* cancel() is called.
CmdReadFailed ==
    /\ reader.pc = "returned" /\ reader.err # ""
    /\ main.pc \in {"run", "returned"}
    /\ reader' = [reader EXCEPT !.pc = "cancelled"]
    /\ ctxDone' = TRUE
    /\ UNCHANGED <<CommandsUnchanged, main, tasksChan, obs>>

\* Run takes a task from the channel and processes it: the row is validated and
\* a valid row is sent to the endpoint.
CmdRunTask ==
    /\ main.pc = "run" /\ ~ctxDone
    /\ tasksChan.buf # <<>>
    /\ LET task == Head(tasksChan.buf)
           valid == ValidateColumns(ReaderSchema, task.RowNumber, task.Data, 1,
                                    NewValidationResult).Valid
       IN obs' = [obs EXCEPT !.received = @ + 1, !.processed = @ + 1,
                             !.http = IF valid THEN @ + 1 ELSE @]
    /\ tasksChan' = [tasksChan EXCEPT !.buf = Tail(@)]
    /\ UNCHANGED <<CommandsUnchanged, main, reader, ctxDone>>

\* Run returns when the channel is closed and empty or the context is cancelled;
\* runExecute prints the counters and returns nil: the exit code is 0.
CmdRunExit ==
    /\ main.pc = "run"
    /\ (tasksChan.closed /\ tasksChan.buf = <<>>) \/ ctxDone
    /\ main' = [pc |-> "exited", exitCode |-> 0]
    /\ UNCHANGED <<CommandsUnchanged, reader, tasksChan, ctxDone, obs>>

NextCommands ==
    \/ CmdValidate
    \/ CmdRender
    \/ CmdRunStart
    \/ (main.pc = "run" /\ ReadOpen)
    \/ (main.pc = "run" /\ ReadHeader)
    \/ (main.pc = "run" /\ ReadRow)
    \/ CmdReadFailed
    \/ CmdRunTask
    \/ CmdRunExit

SpecCommands == InitCommands /\ [][NextCommands]_vars

\* C20: when the header of the CSV differs from the schema's column names, each
\* of the commands validate, render and run ends with a non-zero exit code
\* after processing no data row and issuing no HTTP call.
C20_HeaderMismatchFatal ==
    (HeaderDiffers /\ main.pc = "exited") =>
        /\ obs.processed = 0
        /\ obs.http = 0
        /\ main.exitCode # 0

(***************************************************************************)
(* LoadRequestConfig and RequestConfig.IsSuccessStatus                     *)
(***************************************************************************)
\* The status codes a server can answer with.
StatusCodes == 100..599

\* success.status_in of the request file: not set, or a list of codes.
StatusInLists == {{}, {200}, {200, 404}}

FnUnchanged ==
    <<h, cfg, main, tasksChan, reader, taskChan, feeder, workers, checkpoints, result, ctxDone,
      logger, logChan, validateLogChan, files, failedRows, obs>>

InitStatus ==
    /\ val \in [pc : {"input"}, statusIn : StatusInLists, statusCode : StatusCodes,
                success : {FALSE}]
    /\ h = <<>> /\ PipeOff

\* LoadRequestConfig (validateRequestConfig fills the default), then
\* rc.IsSuccessStatus(statusCode)
ClassifyStatus ==
    /\ val.pc = "input"
    /\ LET rc == [StatusIn |-> validateRequestConfigStatusIn(val.statusIn)]
       IN val' = [val EXCEPT !.pc = "done", !.success = IsSuccessStatus(rc, val.statusCode)]
    /\ UNCHANGED FnUnchanged

NextStatus == ClassifyStatus

SpecStatus == InitStatus /\ [][NextStatus]_vars

\* C21: when success.status_in is not set, IsSuccessStatus classifies a status
\* code as success exactly when it lies in 200..299.
C21_DefaultIsAll2xx ==
    (val.pc = "done" /\ val.statusIn = {}) =>
        (val.success <=> (val.statusCode >= 200 /\ val.statusCode <= 299))

(***************************************************************************)
(* Client.calculateBackoff                                                 *)
(***************************************************************************)
MaxAttempt == 6

\* Durations are in milliseconds; a value of rand.Float64() is given in
\* thousandths: it lies in [0, 1).
Second == 1000
RandDraws == {0, 250, 499, 500, 750, 999}

RECURSIVE Pow2(_)
Pow2(n) == IF n = 0 THEN 1 ELSE 2 * Pow2(n - 1)

\* calculateBackoff(attempt) with r1 and r2 the two values drawn:
\* delay := 2^attempt s; jitter := r1 * 0.5 * delay (truncated); delay -= jitter
\* if r2 < 0.5, else delay += jitter; at most 30 s.
calculateBackoff(attempt, r1, r2) ==
    LET delay == Pow2(attempt) * Second
        jitter == (r1 * delay) \div 2000
        jittered == IF r2 < 500 THEN delay - jitter ELSE delay + jitter
    IN IF jittered > 30 * Second THEN 30 * Second ELSE jittered

InitBackoff ==
    /\ val \in [pc : {"input"}, attempt : 0..MaxAttempt, r1 : RandDraws, r2 : RandDraws,
                delay : {0}]
    /\ h = <<>> /\ PipeOff

Backoff ==
    /\ val.pc = "input"
    /\ val' = [val EXCEPT !.pc = "done",
                          !.delay = calculateBackoff(val.attempt, val.r1, val.r2)]
    /\ UNCHANGED FnUnchanged

NextBackoff == Backoff

SpecBackoff == InitBackoff /\ [][NextBackoff]_vars

Min(a, b) == IF a < b THEN a ELSE b

\* C22: the delay for retry index n lies between 0.75 * 2^n s and 1.25 * 2^n s,
\* except that it is never more than 30 s, whatever values are drawn.
C22_BackoffWithinQuarter ==
    val.pc = "done" =>
        /\ val.delay <= Min(1250 * Pow2(val.attempt), 30 * Second)
        /\ val.delay >= Min(750 * Pow2(val.attempt), 30 * Second)

(***************************************************************************)
(* Properties of Runner.processTask: the limiter, cancellation, templates  *)
(***************************************************************************)
\* C23: with a rate limiter, a worker acquires a token only immediately before
\* an HTTP call: whenever limiter.Wait returns a token to a worker, the worker's
\* next step is the first attempt of Client.Execute for its row, so validation
\* never waits on the limiter and a row that ends invalid, skipped or with a
\* template error consumes no token.
C23_TokenOnlyBeforeCall ==
    [][\A w \in DOMAIN workers :
          (workers[w].pc = "limit" /\ ~ctxDone /\ workers'[w].pc # "limit")
              => workers'[w].pc = "attempt"]_vars

\* C24: once the run-wide cancellation signal is set, no worker invokes the
\* callback any more and none of the counters the workers update (SuccessRows,
\* FailedRows, SkippedRows) changes: a row that was between phases when the run
\* was cancelled ends without a callback.
C24_NoCallbackAfterCancel ==
    [][ctxDone => /\ obs'.callbacks = obs.callbacks
                  /\ result'.SuccessRows = result.SuccessRows
                  /\ result'.FailedRows = result.FailedRows
                  /\ result'.SkippedRows = result.SkippedRows]_vars

\* C25: a valid, non-skipped row whose template fails to render is reported as
\* a failure: the callback gets a result with error_category template_error, no
\* HTTP call is issued for the row, its fingerprint is not added to the index,
\* and when it has been reported FailedRows++ has been executed for it.
C25_TemplateErrorCountsFailed ==
    /\ \A w \in DOMAIN workers :
          (workers[w].pc = "cbSend" /\ obs.branch[workers[w].task] = "template_error")
              => (workers[w].rr.ErrorCategory = "template_error" /\ ~workers[w].rr.Success)
    /\ \A r \in RowNumbers :
          (obs.branch[r] = "template_error" /\ obs.callbacks[r] = 1) =>
              /\ obs.http[r] = 0
              /\ RowHash(r) \notin checkpoints
              /\ obs.counted[r] = "FailedRows"

(***************************************************************************)
(* Validator.evaluateRowRule                                               *)
(***************************************************************************)
\* An expression is the sequence of its tokens (the text between its spaces);
\* Tok is a word or an operator, Num a decimal integer.
Tok(s) == [isInt |-> FALSE, s |-> s, n |-> 0]
Num(n) == [isInt |-> TRUE, s |-> "", n |-> n]
AgeBirth == Tok("age(birth)")

\* The expressions of the row rules.
RuleExprs ==
    {<<AgeBirth, Tok(">="), Num(18), Tok("&&"), AgeBirth, Tok("<="), Num(65)>>,
     <<AgeBirth, Tok(">"), Num(18)>>,
     <<Tok("amount"), Tok(">"), Num(0)>>,
     <<AgeBirth, Tok("<="), Num(65), Tok("&&"), AgeBirth, Tok(">="), Num(18)>>,
     <<AgeBirth, Tok(">="), Tok("min"), Tok("&&"), AgeBirth, Tok("<="), Num(65)>>,
     <<AgeBirth, Tok(">="), Num(18), Tok("&&"), AgeBirth, Tok("<="), Num(65),
       Tok("&&"), Tok("amount"), Tok(">"), Num(0)>>}

\* data["birth"]: "" also stands for a row without the key.
BirthValues == {"", "notadate", "20100230", "19900315", "20200101"}

\* time.Now() as year, month, day (the time of day is after midnight).
NowValues == {[y |-> 2026, m |-> 3, d |-> 14], [y |-> 2026, m |-> 3, d |-> 15],
              [y |-> 2026, m |-> 11, d |-> 3]}

\* time.Parse("20060102", birthStr)
ParseBirth(birthStr) ==
    CASE birthStr = "19900315" -> [ok |-> TRUE, y |-> 1990, m |-> 3, d |-> 15]
      [] birthStr = "20200101" -> [ok |-> TRUE, y |-> 2020, m |-> 1, d |-> 1]
      [] OTHER -> [ok |-> FALSE, y |-> 0, m |-> 0, d |-> 0]

\* age := now.Year() - birth.Year(); if birth.After(now.AddDate(-age, 0, 0)) { age-- }
AgeAt(birth, now) ==
    LET age == now.y - birth.y
    IN IF birth.m > now.m \/ (birth.m = now.m /\ birth.d > now.d) THEN age - 1 ELSE age

\* strings.Contains(expr, word) for a word that is one token
HasToken(expr, tok) == \E i \in 1..Len(expr) : expr[i] = tok

\* strings.Split(expr, sep) for a separator that is one token
RECURSIVE SplitAt(_, _, _, _)
SplitAt(expr, sep, i, acc) ==
    IF i > Len(expr) THEN acc
    ELSE IF expr[i] = sep THEN SplitAt(expr, sep, i + 1, Append(acc, <<>>))
         ELSE SplitAt(expr, sep, i + 1,
                      [acc EXCEPT ![Len(acc)] = Append(@, expr[i])])

Split(expr, sep) == SplitAt(expr, sep, 1, <<(<<>>)>>)

\* strconv.Atoi(strings.TrimSpace(text))
Atoi(text) ==
    IF Len(text) = 1 /\ text[1].isInt THEN [ok |-> TRUE, n |-> text[1].n]
    ELSE [ok |-> FALSE, n |-> 0]

\* One of the two conditions: passes unless it has the operator once, followed
\* by text that is not an integer or by a bound the age is beyond.
AgeBoundFails(part, op, age) ==
    /\ HasToken(part, Tok(op))
    /\ Len(Split(part, Tok(op))) = 2
    /\ LET bound == Atoi(Split(part, Tok(op))[2])
       IN \/ ~bound.ok
          \/ (op = ">=" /\ age < bound.n)
          \/ (op = "<=" /\ age > bound.n)

\* evaluateRowRule(expr, data) at time now
evaluateRowRule(expr, birthStr, now) ==
    IF ~HasToken(expr, AgeBirth) THEN TRUE
    ELSE IF birthStr = "" THEN FALSE
    ELSE IF ~ParseBirth(birthStr).ok THEN FALSE
    ELSE LET age == AgeAt(ParseBirth(birthStr), now)
             ageExpr == [i \in 1..Len(expr) |-> IF expr[i] = AgeBirth THEN Num(age)
                                                 ELSE expr[i]]
             parts == Split(ageExpr, Tok("&&"))
         IN IF /\ HasToken(ageExpr, Tok(">=")) /\ HasToken(ageExpr, Tok("&&"))
               /\ HasToken(ageExpr, Tok("<="))
               /\ Len(parts) = 2
            THEN ~AgeBoundFails(parts[1], ">=", age) /\ ~AgeBoundFails(parts[2], "<=", age)
            ELSE TRUE

InitRule ==
    /\ val \in [pc : {"input"}, expr : RuleExprs, birth : BirthValues, now : NowValues,
                out : {TRUE}]
    /\ h = <<>> /\ PipeOff

EvaluateRule ==
    /\ val.pc = "input"
    /\ val' = [val EXCEPT !.pc = "done",
                          !.out = evaluateRowRule(val.expr, val.birth, val.now)]
    /\ UNCHANGED FnUnchanged

NextRule == EvaluateRule

SpecRule == InitRule /\ [][NextRule]_vars

\* The supported form: age(birth) >= <int> && age(birth) <= <int>
SupportedForm(expr) ==
    /\ Len(expr) = 7
    /\ expr[1] = AgeBirth /\ expr[2] = Tok(">=") /\ expr[3].isInt
    /\ expr[4] = Tok("&&")
    /\ expr[5] = AgeBirth /\ expr[6] = Tok("<=") /\ expr[7].isInt

\* C26: the evaluator returns true for every expression that is not of the
\* supported form, for every row, also when the birth column is empty or not a
\* date and when the expression mentions age(birth) in another shape.
C26_UnsupportedIsTrue ==
    (val.pc = "done" /\ ~SupportedForm(val.expr)) => val.out

(***************************************************************************)
(* The validate command executed twice on the same schema and CSV          *)
(***************************************************************************)
ValidateRuns == 2
ValidateMaxRows == 2

\* A column whose preprocess rule has a replace map with the keys a and b, the
\* value of a being the key b; the column accepts c and d.
ReplaceMap == [a |-> "b", b |-> "c"]

ReplaceSchema(order) ==
    [Columns |-> <<[Name |-> "code", Type |-> "string", Required |-> FALSE,
                    Replace |-> ReplaceMap, ReplaceOrder |-> order,
                    Enum |-> {"c", "d"}]>>,
     TreatEmptyAsNull |-> FALSE, Uniqueness |-> <<>>]

CodeValues == {"a", "b", "c", "x"}

InitValidate ==
    /\ val \in [pc : {"rows"}, run : {1}, next : {1}, errors : {<<>>}, reports : {<<>>},
                rows : UNION {[1..n -> CodeValues] : n \in 0..ValidateMaxRows}]
    /\ h = <<>> /\ PipeOff

\* runValidate's loop: result := val.ValidateRow(i+1, row); the errors of an
\* invalid row are appended to allErrors.  The replace map is ranged in an order
\* that the Go runtime chooses anew for each range statement.
ValidateNextRow ==
    /\ val.pc = "rows" /\ val.next <= Len(val.rows)
    /\ \E order \in Orders(DOMAIN ReplaceMap) :
          LET res == ValidateColumns(ReplaceSchema(order), val.next,
                                     [code |-> val.rows[val.next]], 1, NewValidationResult)
          IN val' = [val EXCEPT !.next = @ + 1, !.errors = @ \o res.Errors]
    /\ UNCHANGED FnUnchanged

\* writeValidationReport: one record per error (without the timestamp); no file
\* is written when there is no error.
ReportRecords(errors) ==
    [i \in 1..Len(errors) |->
        [row |-> errors[i].Row, column |-> errors[i].Column, value |-> errors[i].Value,
         message |-> errors[i].Message]]

\* runValidate after the loop: the report is written and the command ends; the
\* next execution starts on the same input.
ValidateReport ==
    /\ val.pc = "rows" /\ val.next > Len(val.rows)
    /\ val' = [val EXCEPT !.reports = Append(@, ReportRecords(val.errors)),
                          !.errors = <<>>, !.next = 1, !.run = @ + 1,
                          !.pc = IF val.run < ValidateRuns THEN "rows" ELSE "done"]
    /\ UNCHANGED FnUnchanged

NextValidate == ValidateNextRow \/ ValidateReport

SpecValidate == InitValidate /\ [][NextValidate]_vars

\* C27: two executions of validate on the same schema and CSV write the same
\* error records (timestamps apart), also for a schema whose preprocess rule has
\* a replace map with several, overlapping keys.
C27_ValidateDeterministic ==
    Len(val.reports) = ValidateRuns => val.reports[1] = val.reports[2]

(***************************************************************************)
(* The failed-row export against the input of the rows                     *)
(***************************************************************************)
\* The input value of column colName of the row behind a LogRequest call.
\* ValidateRow puts the raw value of a failing column in the error's Value and
\* leaves the column out of result.Data; a column that passes is stored in
\* result.Data (LogSchema has no preprocess, normalize or transform rule, so
\* the stored value is the input value).
InputValue(call, colName) ==
    IF \E k \in 1..Len(call.vr.Errors) : call.vr.Errors[k].Column = colName
    THEN LET k == CHOOSE k \in 1..Len(call.vr.Errors) : call.vr.Errors[k].Column = colName
         IN call.vr.Errors[k].Value
    ELSE call.vr.Data[colName]

\* The cells of the input row, in schema order.
InputCells(call) ==
    [i \in 1..Len(logger.schema.Columns) |-> InputValue(call, logger.schema.Columns[i].Name)]

\* C28: every record of the failed-row export holds, for each schema column in
\* schema order, the value a logged row had in the input (also for the columns
\* that failed validation), followed by the failure reason.
C28_ExportCarriesInput ==
    \A i \in 1..Len(files.failed) :
        \E r \in 1..LogCalls :
            /\ files.failed[i].values = InputCells(cfg.calls[r])
            /\ files.failed[i].failure_reason \in
                  {"validation_failed", "validation_error", "http_5xx"}

(***************************************************************************)
(* The RunResult counters                                                  *)
(***************************************************************************)
\* The rows for which a worker has executed result.<ctr>++.
CountedRows(ctr) == {r \in RowNumbers : obs.counted[r] = ctr}

\* C29: when an uncancelled Run has returned, each of SuccessRows, FailedRows
\* and SkippedRows equals the number of rows for which the workers executed
\* its increment, whatever the number of workers and the interleaving.
C29_NoLostIncrement ==
    (main.pc = "returned" /\ ~obs.interrupted) =>
        \A ctr \in {"SuccessRows", "FailedRows", "SkippedRows"} :
            result[ctr] = Cardinality(CountedRows(ctr))

(***************************************************************************)
(* One call of Client.Execute                                              *)
(***************************************************************************)
TimeoutAnswer ==
    Answer("transport", 0, Err("Post \"u\": context deadline exceeded (Client.Timeout exceeded while awaiting headers)",
                               {"timeout", "context deadline exceeded"}), FALSE)
BadRequestAnswer ==
    Answer("request", 0, Err("failed to create request: net/http: invalid method", {}), FALSE)
BodyErrorAnswer(status) == Answer("body_error", status, ReadBodyErr, FALSE)

\* What executeRequest may return to one attempt.
ExecuteAnswers ==
    {OkAnswer, Answer("response", 200, NilErr, FALSE), NotFoundAnswer, ServerErrorAnswer,
     TooManyAnswer, RefusedAnswer, TimeoutAnswer, CanceledAnswer, BadRequestAnswer,
     BodyErrorAnswer(200), BodyErrorAnswer(503), BodyErrorAnswer(429)}

\* Values of a decoded JSON document (interface{}): a string, a number
\* (float64), a boolean or null.
JsonString(s) == [t |-> "string", s |-> s, n |-> 0, b |-> FALSE]
JsonNumber(n) == [t |-> "number", s |-> "", n |-> n, b |-> FALSE]
JsonBool(b) == [t |-> "bool", s |-> "", n |-> 0, b |-> b]
JsonNull == [t |-> "null", s |-> "", n |-> 0, b |-> FALSE]

\* The decimal digits of a natural number.
RECURSIVE Digits(_)
Digits(n) == IF n < 10 THEN <<n>> ELSE Append(Digits(n \div 10), n % 10)

RECURSIVE StripZeros(_)
StripZeros(d) ==
    IF Len(d) > 1 /\ d[Len(d)] = 0 THEN StripZeros(SubSeq(d, 1, Len(d) - 1)) ELSE d

RECURSIVE Cat(_)
Cat(d) == IF d = <<>> THEN "" ELSE ToString(d[1]) \o Cat(Tail(d))

\* fmt.Sprintf("%v", float64(n)) for a natural n: the shortest %g, which
\* switches to the exponent form when the decimal exponent is 6 or more.
FormatFloat(n) ==
    LET d == Digits(n)
        exp == Len(d) - 1
        m == StripZeros(d)
    IN IF exp < 6 THEN Cat(d)
       ELSE ToString(m[1]) \o (IF Len(m) > 1 THEN "." \o Cat(Tail(m)) ELSE "")
            \o "e+" \o (IF exp < 10 THEN "0" ELSE "") \o ToString(exp)

\* fmt.Sprintf("%v", actualValue)
Sprintf(v) ==
    IF v.t = "string" THEN v.s
    ELSE IF v.t = "number" THEN FormatFloat(v.n)
    ELSE IF v.t = "bool" THEN (IF v.b THEN "true" ELSE "false")
    ELSE "<nil>"

\* A response body: text that is not JSON, a JSON array, the JSON null, or a
\* JSON object with the members obj.
BodyText == [kind |-> "text", obj |-> <<>>]
BodyArray == [kind |-> "array", obj |-> <<>>]
BodyNull == [kind |-> "null", obj |-> <<>>]
BodyObject(obj) == [kind |-> "object", obj |-> obj]

\* json.Unmarshal([]byte(responseBody), &jsonData) with jsonData a
\* map[string]interface{}: an object fills the map, null leaves it nil, anything
\* else is an error.
Unmarshal(body) ==
    IF body.kind = "object" THEN [err |-> FALSE, jsonData |-> body.obj]
    ELSE IF body.kind = "null" THEN [err |-> FALSE, jsonData |-> <<>>]
    ELSE [err |-> TRUE, jsonData |-> <<>>]

\* A check of the response keys that accepts a body in which a key is missing.
checkResponseConditionsLenient(responseKeys, body) ==
    LET u == Unmarshal(body)
    IN IF DOMAIN responseKeys = {} THEN TRUE
       ELSE IF u.err THEN FALSE
       ELSE \A key \in DOMAIN responseKeys :
               key \in DOMAIN u.jsonData => Sprintf(u.jsonData[key]) = responseKeys[key]

\* Client.checkResponseConditions
checkResponseConditions(responseKeys, body) ==
    LET u == Unmarshal(body)
    IN IF DOMAIN responseKeys = {} THEN TRUE
       ELSE IF u.err THEN FALSE
       ELSE \A key \in DOMAIN responseKeys :
               /\ key \in DOMAIN u.jsonData
               /\ Sprintf(u.jsonData[key]) = responseKeys[key]

\* success.response_keys of the request spec, when it is not empty.
ExpectedKeys == [status |-> "ok", count |-> "1000000"]

\* The bodies the endpoint may answer with.
ExecuteBodies ==
    {BodyText, BodyArray, BodyNull,
     BodyObject([status |-> JsonString("ok"), count |-> JsonString("1000000")]),
     BodyObject([status |-> JsonString("ok"), count |-> JsonNumber(1000000)]),
     BodyObject([status |-> JsonString("ok"), count |-> JsonNumber(7)]),
     BodyObject([status |-> JsonString("ok")]),
     BodyObject([status |-> JsonBool(TRUE), count |-> JsonNull])}

\* The result of executeRequest for an answer whose body is body.
WithBody(a, body) ==
    IF a.kind = "response"
    THEN [a EXCEPT !.keysMatch = checkResponseConditions(ExpectedKeys, body)]
    ELSE a

\* Execute is entered: result := &RequestResult{...}; val.attempts counts the
\* calls of executeRequest, val.last is what the last call returned.
InitExecute ==
    /\ val \in [e : {ExecNew}, attempts : {0},
                rc : {RequestConfig({}, k) : k \in BOOLEAN},
                last : {[kind |-> "", status |-> 0, body |-> BodyText]}]
    /\ h = <<>> /\ PipeOff

ExecuteUnchanged == <<h, cfg, main, tasksChan, reader, taskChan, feeder, workers, checkpoints,
                      result, logger, logChan, validateLogChan, files, failedRows, obs>>

\* One iteration of the loop of Execute.
ExecuteAttempt ==
    /\ val.e.pc = "attempt"
    /\ \E a \in executeRequest(ExecuteAnswers, ctxDone), body \in ExecuteBodies :
          /\ a.kind # "response" => body = BodyText
          /\ val' = [val EXCEPT !.e = ExecAttempt(val.rc, val.e, WithBody(a, body)),
                                !.attempts = @ + 1,
                                !.last = [kind |-> a.kind, status |-> a.status,
                                          body |-> body]]
    /\ UNCHANGED <<ExecuteUnchanged, ctxDone>>

\* select { ... case <-time.After(backoffDelay): continue }
ExecuteBackoffOver ==
    /\ val.e.pc = "sleep" /\ ~ctxDone
    /\ val' = [val EXCEPT !.e = ExecBackoffOver(val.e)]
    /\ UNCHANGED <<ExecuteUnchanged, ctxDone>>

\* select { case <-ctx.Done(): return result ... }
ExecuteBackoffCancelled ==
    /\ val.e.pc = "sleep" /\ ctxDone
    /\ val' = [val EXCEPT !.e = ExecBackoffCancelled(val.e)]
    /\ UNCHANGED <<ExecuteUnchanged, ctxDone>>

\* The caller's context is cancelled while Execute runs.
ExecuteCancel ==
    /\ ~ctxDone /\ val.e.pc # "returned"
    /\ ctxDone' = TRUE
    /\ UNCHANGED <<ExecuteUnchanged, val>>

NextExecute ==
    ExecuteAttempt \/ ExecuteBackoffOver \/ ExecuteBackoffCancelled \/ ExecuteCancel

SpecExecute == InitExecute /\ [][NextExecute]_vars

\* executeRequest returns (the http.Client has a timeout and the request carries
\* the context) and the backoff timer fires, so a step of Execute that is
\* possible is eventually taken; the cancellation need not happen.
FairSpecExecute ==
    /\ SpecExecute
    /\ WF_vars(ExecuteAttempt)
    /\ WF_vars(ExecuteBackoffOver)
    /\ WF_vars(ExecuteBackoffCancelled)

\* C30: Execute makes at most maxRetries + 1 calls of executeRequest, it returns
\* for every sequence of results of these calls, with or without cancellation,
\* and the result it returns has in Retries the zero-based index of the last
\* call made.
C30_ExecuteTerminates ==
    /\ [](val.attempts <= maxRetries + 1)
    /\ [](val.e.pc = "returned" =>
            /\ val.attempts >= 1
            /\ ExecResult(val.e).Retries = val.attempts - 1)
    /\ <>(val.e.pc = "returned")

\* C30 witness: Execute has returned after the last allowed attempt failed, the
\* context not cancelled.
C30_Witness ==
    /\ val.e.pc = "returned" /\ ~ctxDone
    /\ val.attempts = maxRetries + 1
    /\ ExecResult(val.e).Retries = maxRetries
    /\ ~ExecResult(val.e).Success

\* C31: the result Execute returns has Success = TRUE exactly when the last call
\* of executeRequest returned a response without error, its status is in the
\* configured status list, and, when response keys are configured, the body is
\* a JSON object in which every configured key is present with a value whose
\* text form equals the expected text.
C31_SuccessClassification ==
    val.e.pc = "returned" =>
        (ExecResult(val.e).Success <=>
            /\ val.last.kind = "response"
            /\ val.last.status \in val.rc.StatusIn
            /\ val.rc.ResponseKeys =>
                  /\ val.last.body.kind = "object"
                  /\ \A key \in DOMAIN ExpectedKeys :
                        /\ key \in DOMAIN val.last.body.obj
                        /\ Sprintf(val.last.body.obj[key]) = ExpectedKeys[key])

\* C31 witness: Execute has returned success for a response whose body has the
\* configured keys, after an attempt that failed.
C31_Witness ==
    /\ val.e.pc = "returned" /\ ExecResult(val.e).Success
    /\ val.rc.ResponseKeys /\ val.attempts > 1
    /\ val.last.body.kind = "object"

(***************************************************************************)
(* Run with more rows than its task queue holds                            *)
(***************************************************************************)
QueueRows == 4

\* One worker and QueueRows rows: a row that fails validation, one that fails
\* rendering and two that render.
QueueConfigs ==
    [concurrency : {1}, limiter : BOOLEAN, resume : {FALSE},
     rows : {<<"al", "", "bo", "x">>}, answers : {RunAnswers}, statusIn : {{}},
     responseKeys : {FALSE}, plan : {<<>>}]

InitQueue == \E c \in QueueConfigs : InitPipe(c)

SpecQueue == InitQueue /\ [][Next]_vars

\* The rows a worker has taken from the task queue and not finished.
InProcess == {w \in DOMAIN workers : workers[w].task # 0}

\* The rows the feeder has received from the input channel.
FeederReceived ==
    {r \in RowNumbers : r < reader.rowNumber /\ \A i \in 1..Len(tasksChan.buf) : tasksChan.buf[i] # r}

\* C32: at most cfg.concurrency rows are in process at a time, the task queue
\* never holds more than 2 * cfg.concurrency rows, and while the run is not
\* cancelled every row the feeder has received is held by the feeder, is in the
\* queue, or has been taken by a worker: no row is dropped when the queue is full.
C32_BoundedQueue ==
    /\ Cardinality(InProcess) <= cfg.concurrency
    /\ Len(taskChan.buf) <= 2 * cfg.concurrency
    /\ ~ctxDone =>
          \A r \in FeederReceived :
              \/ feeder.task = r
              \/ \E i \in 1..Len(taskChan.buf) : taskChan.buf[i] = r
              \/ obs.deq[r] # "no"

\* C32 witness: the queue is full, the worker is busy and the feeder waits with
\* the next row.
C32_Witness ==
    /\ ~ctxDone
    /\ Len(taskChan.buf) = 2 * cfg.concurrency
    /\ feeder.pc = "send" /\ feeder.task # 0
    /\ Cardinality(InProcess) = cfg.concurrency

\* The steps of the goroutines of the pipeline: the producer, the feeder, the
\* workers with their callback, and Run's wg.Wait().
QueueProgress ==
    \/ StartRun
    \/ ReaderSend
    \/ ReaderClose
    \/ FeederRecv
    \/ FeederSend
    \/ FeederCount
    \/ FeederCancelled
    \/ \E w \in Workers : WorkerRecv(w)
    \/ \E w \in Workers : WorkerSelect(w)
    \/ \E w \in Workers : WorkerLimiterWait(w)
    \/ \E w \in Workers : WorkerCheck(w)
    \/ \E w \in Workers : WorkerAttempt(w)
    \/ \E w \in Workers : WorkerBackoffOver(w)
    \/ \E w \in Workers : WorkerBackoffCancelled(w)
    \/ \E w \in Workers : WorkerMark(w)
    \/ \E w \in Workers : WorkerIncRead(w)
    \/ \E w \in Workers : WorkerIncWrite(w)
    \/ \E w \in Workers : WorkerCallback(w)
    \/ RunReturn

\* The Go scheduler runs a goroutine that can take a step; the interrupt need
\* not come.
FairSpecQueue == SpecQueue /\ WF_vars(QueueProgress)

\* C33: once the run is cancelled, Run returns, and the producer, the feeder and
\* every worker leave their channel operations: none of them stays blocked.
C33_CancelUnblocksAll ==
    ctxDone ~> /\ main.pc # "run"
               /\ reader.pc = "done"
               /\ feeder.pc = "done"
               /\ \A w \in DOMAIN workers : workers[w].pc = "exit"

(***************************************************************************)
(* The idempotency index during a run                                      *)
(***************************************************************************)
\* The rows whose Execute returned success.
SucceededRows == {r \in RowNumbers : obs.branch[r] = "success"}

\* C34: among the rows that have the same fingerprint at most one has an HTTP
\* call that ends in success, for any number of workers and any interleaving.
C34_NoDoubleSend ==
    \A r1, r2 \in SucceededRows : RowHash(r1) = RowHash(r2) => r1 = r2

\* The fingerprints the index may hold: the preloaded ones and those of the rows
\* whose Execute returned success.
AllowedFingerprints == obs.preloaded \cup {RowHash(r) : r \in SucceededRows}

\* C35: the index holds only fingerprints that were loaded with LoadCheckpoints
\* or belong to a row whose HTTP outcome in this run was success (never that of
\* a row that only was invalid, failed rendering or failed its call), and no
\* step removes a fingerprint from it.
C35_IndexOnlySuccess ==
    /\ checkpoints \subseteq AllowedFingerprints
    /\ [][/\ checkpoints \subseteq checkpoints'
          /\ checkpoints' \subseteq {RowHash(r) : r \in {q \in RowNumbers : obs'.branch[q] = "success"}}
                                    \cup obs'.preloaded]_vars

\* C35 witness: one row has been sent with success and its fingerprint recorded,
\* the other row's call has failed and its fingerprint is not in the index.
C35_Witness ==
    \E r1, r2 \in RowNumbers :
        /\ obs.branch[r1] = "success" /\ RowHash(r1) \in checkpoints
        /\ obs.branch[r2] = "failure" /\ obs.callbacks[r2] = 1
        /\ RowHash(r2) \notin checkpoints

\* C36: a result of Execute with Success = TRUE has an empty error category and
\* an empty error detail, also when attempts before the successful one ended in
\* transport errors.
C36_SuccessCarriesNoError ==
    (val.e.pc = "returned" /\ ExecResult(val.e).Success) =>
        /\ ExecResult(val.e).ErrorCategory = ""
        /\ ExecResult(val.e).ErrorDetail = ""

(***************************************************************************)
(* Validator.ValidateRow with two uniqueness columns, row after row        *)
(***************************************************************************)
SeenMaxRows == 3

\* A schema with a uniqueness constraint on each of its two columns.
SeenSchema ==
    [Columns |-> <<[Name |-> "email", Type |-> "string", Required |-> FALSE],
                   [Name |-> "phone", Type |-> "string", Required |-> FALSE]>>,
     TreatEmptyAsNull |-> FALSE,
     Uniqueness |-> <<[Columns |-> <<"email">>], [Columns |-> <<"phone">>]>>]

SeenValues == {"", "a", "b"}

SeenRows == [email : SeenValues, phone : SeenValues]

\* checkUniqueness from the k-th column of its rules on; st holds v.seen and the
\* ValidationResult.
RECURSIVE checkUniqueness(_, _, _, _)
checkUniqueness(cols, k, rowNum, st) ==
    IF k > Len(cols) THEN st
    ELSE LET col == cols[k]
             value == st.res.Data[col]
         IN IF value = "" THEN checkUniqueness(cols, k + 1, rowNum, st)
            ELSE IF <<col, value>> \in st.seen
            THEN checkUniqueness(cols, k + 1, rowNum,
                   [st EXCEPT !.res = AddError(@, rowNum, col, value,
                                        "duplicate value violates uniqueness constraint")])
            ELSE checkUniqueness(cols, k + 1, rowNum,
                   [st EXCEPT !.seen = @ \cup {<<col, value>>}])

\* NewValidator: the seen maps are empty.
InitSeen ==
    /\ val \in [rows : UNION {[1..n -> SeenRows] : n \in 1..SeenMaxRows},
                next : {1}, seen : {{}}, out : {<<>>}]
    /\ h = <<>> /\ PipeOff

\* ValidateRow(rowNum, row): the loop over the columns, then
\* `if result.Valid { v.checkUniqueness(rowNum, result) }` (SeenSchema has no row
\* rule).
ValidateSeenRow ==
    /\ val.next <= Len(val.rows)
    /\ LET res == ValidateColumns(SeenSchema, val.next, val.rows[val.next], 1,
                                  NewValidationResult)
           st == IF res.Valid
                 THEN checkUniqueness(UniqueColumns(SeenSchema), 1, val.next,
                                      [seen |-> val.seen, res |-> res])
                 ELSE [seen |-> val.seen, res |-> res]
       IN val' = [val EXCEPT !.next = @ + 1, !.seen = st.seen, !.out = Append(@, st.res)]
    /\ UNCHANGED FnUnchanged

NextSeen == ValidateSeenRow

SpecSeen == InitSeen /\ [][NextSeen]_vars

\* C37: every value in a seen-set was recorded by a row that passed validation,
\* and a row is rejected as a duplicate only if an earlier accepted row has the
\* same value in that column.
C37_SeenOnlyFromAccepted ==
    /\ \A p \in val.seen :
          \E q \in 1..Len(val.out) : val.out[q].Valid /\ val.out[q].Data[p[1]] = p[2]
    /\ \A r \in 1..Len(val.out) :
          \A k \in 1..Len(val.out[r].Errors) :
              LET e == val.out[r].Errors[k]
              IN \E q \in 1..(r - 1) : val.out[q].Valid /\ val.out[q].Data[e.Column] = e.Value

(***************************************************************************)
(* The logger's list of failed rows                                        *)
(***************************************************************************)
\* The entries of l.failedRows for row r.
FailedEntries(r) == {i \in 1..Len(failedRows) : failedRows[i].RowNumber = r}

\* C38: when every LogRequest call has returned, the list of failed rows has
\* exactly one entry for each row that was reported as failed and none for a
\* row that succeeded, whatever the interleaving of the calls.
C38_OneEntryPerFailedRow ==
    (main.next > LogCalls /\ \A g \in DOMAIN workers : workers[g].pc = "idle") =>
        \A r \in 1..LogCalls :
            Cardinality(FailedEntries(r)) =
                IF cfg.calls[r].vr.Valid /\ cfg.calls[r].rr # <<>> /\ cfg.calls[r].rr[1].Success
                THEN 0 ELSE 1

(***************************************************************************)
(* The return of Run                                                       *)
(***************************************************************************)
\* Runs with one or two workers, with and without limiter, over two equal rows
\* and over an invalid row with one that fails to render.
ReturnConfigs ==
    [concurrency : 1..MaxConcurrency, limiter : BOOLEAN, resume : {FALSE},
     rows : {<<"al", "al">>, <<"", "x">>}, answers : {RunAnswers},
     statusIn : {{}}, responseKeys : {FALSE}, plan : {<<>>}]

InitReturn == \E c \in ReturnConfigs : InitPipe(c)

\* The Go scheduler runs a goroutine that can take a step; the interrupt need
\* not come.
FairSpecReturn == InitReturn /\ [][Next]_vars /\ WF_vars(QueueProgress)

DigitChars == {"0", "1", "2", "3", "4", "5", "6", "7", "8", "9"}

\* regexp.MustCompile(`\D`).ReplaceAllString(phone, "")
RemoveNonDigits(phone) == SelectSeq(phone, LAMBDA c : c \in DigitChars)

\* strings.HasPrefix
HasPrefix(s, prefix) == Len(s) >= Len(prefix) /\ SubSeq(s, 1, Len(prefix)) = prefix

\* formatKoreanPhoneE164 of the validator's transform
formatKoreanPhoneE164(phone) ==
    LET cleaned == RemoveNonDigits(phone)
    IN IF Len(cleaned) = 10 /\ HasPrefix(cleaned, <<"0">>)
       THEN <<"+", "8", "2">> \o SubSeq(cleaned, 2, Len(cleaned))
       ELSE IF Len(cleaned) = 11 /\ HasPrefix(cleaned, <<"0", "1">>)
       THEN <<"+", "8", "2">> \o SubSeq(cleaned, 2, Len(cleaned))
       ELSE cleaned

\* toE164KR of the request templates
toE164KR(phone) ==
    LET cleaned == RemoveNonDigits(phone)
    IN IF Len(cleaned) = 10 /\ HasPrefix(cleaned, <<"0">>)
       THEN <<"+", "8", "2">> \o SubSeq(cleaned, 2, Len(cleaned))
       ELSE IF Len(cleaned) = 11 /\ HasPrefix(cleaned, <<"0", "1">>)
       THEN <<"+", "8", "2">> \o SubSeq(cleaned, 2, Len(cleaned))
       ELSE cleaned

\* The phone values of the input: a beginning followed by up to PhoneMaxTail
\* characters, all the digit 5 or every third one a hyphen.
PhoneMaxTail == 12

PhoneHeads == {<<>>, <<"0">>, <<"0", "1">>, <<"0", "2">>, <<"+", "8", "2">>, <<"8", "2">>}

PhoneTail(n, hyphens) == [k \in 1..n |-> IF hyphens /\ k % 3 = 0 THEN "-" ELSE "5"]

PhoneInputs ==
    {head \o PhoneTail(n, hy) : head \in PhoneHeads, n \in 0..PhoneMaxTail, hy \in BOOLEAN}

InitPhone ==
    /\ val \in [pc : {"input"}, phone : PhoneInputs, stored : {<<>>}, sent : {<<>>}]
    /\ h = <<>> /\ PipeOff

\* ValidateRow stores the transformed value in result.Data; the request template
\* then applies toE164KR to the stored value.
ConvertPhone ==
    /\ val.pc = "input"
    /\ val' = [val EXCEPT !.pc = "done",
                          !.stored = formatKoreanPhoneE164(val.phone),
                          !.sent = toE164KR(formatKoreanPhoneE164(val.phone))]
    /\ UNCHANGED FnUnchanged

NextPhone == ConvertPhone

SpecPhone == InitPhone /\ [][NextPhone]_vars

\* C40: the conversion is idempotent: a phone value converted by the schema
\* transform is left unchanged by toE164KR in the request template.
C40_E164Idempotent ==
    val.pc = "done" => val.sent = val.stored

=============================================================================
